---- MODULE Spec2Model ----
(***************************************************************************)
(* The 3-tier intent engine of Agent/intent_engine.py: compound splitter,  *)
(* Tier-0 regex fast paths, Tier-1 TF-IDF matcher, Tier-2 LLM classifier,  *)
(* the self-learning cache with its JSON store, the parameter extractor    *)
(* and the IntentEngine orchestrator (understand / teach_action /          *)
(* forget_action).                                                         *)
(*                                                                         *)
(* Conventions.  A Python str is modelled as a sequence of tokens: a token *)
(* is a word, or PAD for a run of leading/trailing whitespace.  Words are  *)
(* separated by single spaces.  Real numbers are fixed-point integers with *)
(* scale 1000 (a score of 0.65 is 650).                                    *)
(***************************************************************************)
EXTENDS Integers, Sequences, FiniteSets, TLC

VARIABLES
    cache,          \* LearningCache.cache: insertion-ordered dict, a sequence of [key, entry]
    disk,           \* the file learned_actions.json
    disk_mode,      \* environment: what a write to the file does now
    matcher,        \* IntentEngine.matcher: the TFIDFMatcher in use
    stats,          \* IntentEngine.stats
    llm_available,  \* LLMClassifier.available
    calls,          \* understand() calls made so far
    last            \* the last call made on the engine and what it did

vars == <<cache, disk, disk_mode, matcher, stats, llm_available, calls, last>>

-----------------------------------------------------------------------------
(* Bounds of the model *)

MaxCache == 2       \* cache entries beyond which no call adding one is explored
MaxCalls == 2       \* understand() calls explored per process lifetime
MaxWords == 5       \* words of an utterance given to split_compound on its own

-----------------------------------------------------------------------------
(* Strings *)

PAD == " "
None == <<"<None>">>

Range(s) == {s[i] : i \in DOMAIN s}

\* str.lower(), token by token
LowerWord(w) ==
    CASE w = "Chat" -> "chat"
      [] w = "ZZZ" -> "zzz"
      [] OTHER -> w

Lower(s) == [i \in DOMAIN s |-> LowerWord(s[i])]

RECURSIVE LStrip(_)
LStrip(s) == IF s # <<>> /\ Head(s) = PAD THEN LStrip(Tail(s)) ELSE s

RECURSIVE RStrip(_)
RStrip(s) ==
    IF s # <<>> /\ s[Len(s)] = PAD THEN RStrip(SubSeq(s, 1, Len(s) - 1)) ELSE s

\* str.strip()
Strip(s) == RStrip(LStrip(s))

\* str.split(): the words of a string
Words(s) == SelectSeq(s, LAMBDA w : w # PAD)

\* "sep".join(parts) for a one-token separator
RECURSIVE Join(_, _)
Join(sep, parts) ==
    IF parts = <<>> THEN <<>>
    ELSE IF Len(parts) = 1 THEN parts[1]
    ELSE parts[1] \o <<sep>> \o Join(sep, Tail(parts))

\* first index at which the token sequence pat occurs in s with a token on
\* both sides of it (the separator strings carry a space on both sides), or 0
FindSep(s, pat) ==
    LET hits == {i \in 2..(Len(s) - Len(pat)) :
                    SubSeq(s, i, i + Len(pat) - 1) = pat}
    IN IF hits = {} THEN 0 ELSE CHOOSE i \in hits : \A j \in hits : i <= j

-----------------------------------------------------------------------------
(* Compound command splitter *)

_COMMAND_VERBS ==
    {"open", "launch", "start", "go", "switch", "close", "kill", "exit",
     "type", "write", "enter", "input",
     "send", "message", "text", "tell", "chat",
     "search", "look", "find", "google", "youtube",
     "click", "tap", "press", "select", "hit",
     "scroll", "swipe",
     "play", "pause", "stop", "skip", "next", "previous", "resume",
     "back", "home",
     "mute", "unmute", "volume",
     "increase", "decrease", "raise", "lower", "reduce",
     "turn", "set", "max", "crank", "boost", "pump",
     "teach", "forget",
     "dim", "brighten",
     "screenshot", "capture"}

Separators == << <<"and", "then">>, <<"then">>, <<"and">>, <<"after", "that">> >>

\* the loop without the rule for a lone modifier on the right: C11 does not
\* hold of it
RECURSIVE SplitFromNoModifierRule(_, _)
SplitFromNoModifierRule(t, k) ==
    IF k > Len(Separators) THEN None
    ELSE
      LET sep == Separators[k]
          idx == FindSep(Lower(t), sep)
          left == Strip(SubSeq(t, 1, idx - 1))
          right == Strip(SubSeq(t, idx + Len(sep), Len(t)))
          right_words == Words(Lower(right))
          first_word == IF right_words # <<>> THEN right_words[1] ELSE ""
      IN IF idx = 0 THEN SplitFromNoModifierRule(t, k + 1)
         ELSE IF left = <<>> \/ right = <<>> THEN SplitFromNoModifierRule(t, k + 1)
         ELSE IF Len(right_words) = 2
                 /\ right_words[2] \in {"it", "that", "this"}
                 /\ first_word \in {"tap", "click", "select", "press", "hit", "open"}
              THEN SplitFromNoModifierRule(t, k + 1)
         ELSE IF first_word \in _COMMAND_VERBS THEN <<left, right>>
         ELSE SplitFromNoModifierRule(t, k + 1)

\* one pass of the loop over the separators, from the k-th on
RECURSIVE SplitFrom(_, _)
SplitFrom(t, k) ==
    IF k > Len(Separators) THEN None
    ELSE
      LET sep == Separators[k]
          idx == FindSep(Lower(t), sep)
          left == Strip(SubSeq(t, 1, idx - 1))
          right == Strip(SubSeq(t, idx + Len(sep), Len(t)))
          right_words == Words(Lower(right))
          first_word == IF right_words # <<>> THEN right_words[1] ELSE ""
      IN IF idx = 0 THEN SplitFrom(t, k + 1)
         ELSE IF left = <<>> \/ right = <<>> THEN SplitFrom(t, k + 1)
         ELSE IF Len(right_words) <= 1
                 /\ first_word \in {"send", "enter", "submit", "search"}
              THEN SplitFrom(t, k + 1)
         ELSE IF Len(right_words) = 2
                 /\ right_words[2] \in {"it", "that", "this"}
                 /\ first_word \in {"tap", "click", "select", "press", "hit", "open"}
              THEN SplitFrom(t, k + 1)
         ELSE IF first_word \in _COMMAND_VERBS THEN <<left, right>>
         ELSE SplitFrom(t, k + 1)

\* None, or the two sub-utterances
split_compound(utterance) == SplitFrom(Strip(utterance), 1)

-----------------------------------------------------------------------------
(* Tier 1: the TF-IDF matcher, in fixed point *)

Scale == 1000

StopWords == {"the", "a", "an", "is", "it", "i", "my", "me",
              "please", "can", "you", "could", "would"}

_tokenize(text) == SelectSeq(Words(Lower(text)), LAMBDA w : w \notin StopWords)

RECURSIVE SumSet(_, _)
SumSet(F(_), S) ==
    IF S = {} THEN 0
    ELSE LET x == CHOOSE x \in S : TRUE IN F(x) + SumSet(F, S \ {x})

\* Counter(tokens)[term]
Count(tokens, term) == Cardinality({i \in DOMAIN tokens : tokens[i] = term})

RECURSIVE IsqrtIter(_, _)
IsqrtIter(n, x) ==
    LET y == (x + (n \div x)) \div 2
    IN IF y >= x THEN x ELSE IsqrtIter(n, y)

\* math.sqrt, rounded down
Isqrt(n) == IF n <= 0 THEN 0 ELSE IsqrtIter(n, n)

RECURSIVE Halve(_, _)
Halve(x, k) == IF x >= 20000 THEN Halve(x \div 2, k + 1) ELSE <<x, k>>

\* math.log(a / b) for a >= b > 0, scale 1000: a/b is halved into [1, 2) and
\* the logarithm of the rest is the series 2 artanh((m - 1) / (m + 1))
Ln(a, b) ==
    LET r == Halve((a * 10000) \div b, 0)
        m == r[1]
        z == ((m - 10000) * 10000) \div (m + 10000)
        z2 == (z * z) \div 10000
        z3 == (z * z2) \div 10000
        z5 == (z3 * z2) \div 10000
        z7 == (z5 * z2) \div 10000
    IN (r[2] * 6931 + 2 * (z + (z3 \div 3) + (z5 \div 5) + (z7 \div 7)) + 5) \div 10

\* the vector of a token list against an idf map (idf.get(term, 1.0))
TfIdf(tokens, idf) ==
    LET total == IF tokens # <<>> THEN Len(tokens) ELSE 1
    IN [term \in Range(tokens) |->
          (Count(tokens, term)
             * (IF term \in DOMAIN idf THEN idf[term] ELSE Scale)) \div total]

\* TFIDFMatcher() with the documents added and build() run
BuildMatcher(documents) ==
    LET n == Len(documents)
        doc_tokens == [i \in 1..n |-> _tokenize(documents[i].text)]
        terms == UNION {Range(doc_tokens[i]) : i \in 1..n}
        df == [term \in terms |->
                 Cardinality({i \in 1..n : term \in Range(doc_tokens[i])})]
        idf == [term \in terms |-> Ln(n + 1, df[term] + 1) + Scale]
    IN [documents |-> documents,
        doc_tokens |-> doc_tokens,
        idf |-> IF n = 0 THEN <<>> ELSE idf,
        doc_tfidf |-> IF n = 0 THEN <<>>
                      ELSE [i \in 1..n |-> TfIdf(doc_tokens[i], idf)],
        _built |-> n # 0]

_cosine(a, b) ==
    LET dot == SumSet(LAMBDA k : a[k] * b[k], DOMAIN a \cap DOMAIN b)
        mag_a == Isqrt(SumSet(LAMBDA k : a[k] * a[k], DOMAIN a))
        mag_b == Isqrt(SumSet(LAMBDA k : b[k] * b[k], DOMAIN b))
    IN IF dot = 0 \/ mag_a = 0 \/ mag_b = 0 THEN 0
       ELSE ((((dot * 10) \div mag_a) * 100) \div mag_b)

\* results.sort(reverse=True) is stable: the best of a set of document indices
\* is the highest score, the earliest document among equals
BestOf(score, S) ==
    CHOOSE i \in S : \A j \in S : score[i] > score[j] \/ (score[i] = score[j] /\ i <= j)

RECURSIVE Dedupe(_, _, _, _, _)
Dedupe(m, score, S, seen, top_k) ==
    IF S = {} \/ top_k = 0 THEN <<>>
    ELSE LET i == BestOf(score, S)
             action == m.documents[i].action
         IN IF action \in seen THEN Dedupe(m, score, S \ {i}, seen, top_k)
            ELSE << <<score[i], action, m.documents[i].text>> >>
                   \o Dedupe(m, score, S \ {i}, seen \cup {action}, top_k - 1)

\* match, the scoring loop: the cosine of the query against every document
Scores(mm, query_tfidf) ==
    [i \in DOMAIN mm.doc_tfidf |-> _cosine(query_tfidf, mm.doc_tfidf[i])]

\* match, the ranking: the positive scores, best first, one per action
Top(mm, score, top_k) ==
    Dedupe(mm, score, {i \in DOMAIN score : score[i] > 0}, {}, top_k)

\* match, once the matcher is built and the query tokenized
MatchTokens(mm, query_tokens, top_k) ==
    IF query_tokens = <<>> THEN <<>>
    ELSE Top(mm, Scores(mm, TfIdf(query_tokens, mm.idf)), top_k)

\* TFIDFMatcher.match: ranked <<score, action, example>>, one per action
match(m, query, top_k) ==
    MatchTokens(IF m._built THEN m ELSE BuildMatcher(m.documents),
                _tokenize(query), top_k)

-----------------------------------------------------------------------------
(* The built-in knowledge base (the labels and examples the model keeps) *)

A(name) == <<name>>

\* a knowledge base that does not hold "blast it": C19 does not hold of it
ACTION_EXAMPLESWithoutBlastIt ==
    << <<A("VOLUME_UP"), << <<"volume", "up">>, <<"louder">>, <<"crank", "it", "up">> >> >>,
       <<A("VOLUME_MAX"), << <<"max", "volume">> >> >>,
       <<A("MEDIA_PREVIOUS"), << <<"last", "song">> >> >>,
       <<A("OPEN_APP"), << <<"open", "youtube">>, <<"open", "chrome">>,
                           <<"go", "to", "youtube">> >> >>,
       <<A("TYPE_AND_SEND"), << <<"write", "hello", "and", "send">> >> >>,
       <<A("SEND_MESSAGE"), << <<"text", "poojitha">>, <<"chat", "with", "mom">>,
                               <<"chat", "mom">> >> >>,
       <<A("SEARCH_IN_APP"), << <<"search", "cats", "on", "youtube">>,
                                <<"search", "for", "cats">>,
                                <<"search", "recipes">> >> >>,
       <<A("VISION_QUERY"), << <<"click", "subscribe">>,
                               <<"tap", "on", "4th", "mail">>,
                               <<"first", "video">> >> >> >>

ACTION_EXAMPLES ==
    << <<A("VOLUME_UP"), << <<"volume", "up">>, <<"louder">>, <<"crank", "it", "up">> >> >>,
       <<A("VOLUME_MAX"), << <<"max", "volume">>, <<"blast", "it">> >> >>,
       <<A("MEDIA_PREVIOUS"), << <<"last", "song">> >> >>,
       <<A("OPEN_APP"), << <<"open", "youtube">>, <<"open", "chrome">>,
                           <<"go", "to", "youtube">> >> >>,
       <<A("TYPE_AND_SEND"), << <<"write", "hello", "and", "send">> >> >>,
       <<A("SEND_MESSAGE"), << <<"text", "poojitha">>, <<"chat", "with", "mom">>,
                               <<"chat", "mom">> >> >>,
       <<A("SEARCH_IN_APP"), << <<"search", "cats", "on", "youtube">>,
                                <<"search", "for", "cats">>,
                                <<"search", "recipes">> >> >>,
       <<A("VISION_QUERY"), << <<"click", "subscribe">>,
                               <<"tap", "on", "4th", "mail">>,
                               <<"first", "video">> >> >> >>

RECURSIVE KbDocs(_)
KbDocs(k) ==
    IF k > Len(ACTION_EXAMPLES) THEN <<>>
    ELSE [i \in DOMAIN ACTION_EXAMPLES[k][2] |->
            [action |-> ACTION_EXAMPLES[k][1], text |-> ACTION_EXAMPLES[k][2][i]]]
         \o KbDocs(k + 1)

-----------------------------------------------------------------------------
(* Python / JSON values held in param maps.  A dict is a function from its *)
(* keys; a value is a str, a number or a list.                             *)

VStr(s) == [str |-> s]
VInt(n) == [int |-> n]
VList(l) == [list |-> l]

IsStr(v) == DOMAIN v = {"str"}
IsInt(v) == DOMAIN v = {"int"}

\* bool(v)
Truthy(v) ==
    CASE IsStr(v) -> v.str # <<>>
      [] IsInt(v) -> v.int # 0
      [] OTHER -> v.list # <<>>

EmptyDict == <<>>

\* d.get(k), with None standing for a missing key
Has(d, k) == k \in DOMAIN d
Get(d, k, default) == IF Has(d, k) THEN d[k] ELSE default

\* the digits a numeric token spells
NumeralOf(w) ==
    CASE w = "5" -> 5
      [] w = "100" -> 100
      [] OTHER -> -1

\* int(v) succeeds: a number, or a str that spells one
IntOk(v) ==
    \/ IsInt(v)
    \/ IsStr(v) /\ Len(Strip(v.str)) = 1 /\ NumeralOf(Strip(v.str)[1]) >= 0

IntOf(v) == IF IsInt(v) THEN v.int ELSE NumeralOf(Strip(v.str)[1])

-----------------------------------------------------------------------------
(* Tier 2: the LLM classifier *)

ACTION_DESCRIPTIONS ==
    {A("EXIT"), A("WAKE"), A("BACK"), A("HOME"), A("CLOSE_ALL"), A("CLOSE_APP"),
     A("VOLUME_UP"), A("VOLUME_DOWN"), A("VOLUME_MAX"), A("VOLUME_MIN"),
     A("VOLUME_MUTE"), A("VOLUME_UNMUTE"), A("MEDIA_PLAY"), A("MEDIA_PAUSE"),
     A("MEDIA_NEXT"), A("MEDIA_PREVIOUS"), A("SCROLL_DOWN"), A("SCROLL_UP"),
     A("OPEN_APP"), A("SEND_MESSAGE"), A("SEARCH_IN_APP"), A("TYPE_TEXT"),
     A("TYPE_AND_SEND"), A("VISION_QUERY"), A("SCREEN_INFO"), A("SCREENSHOT"),
     A("BRIGHTNESS_UP"), A("BRIGHTNESS_DOWN")}

\* What ollama.chat answers: it raises, or it returns text in which the first
\* {...} block is absent, is not JSON, or is JSON (the object it denotes).
LlmObject(action, contact, amount) ==
    [action |-> action, app |-> VStr(<<>>), contact |-> VStr(contact),
     message |-> VStr(<<>>), query |-> VStr(<<>>), amount |-> amount]

RespRaise == [kind |-> "raise", data |-> EmptyDict]
RespNoJson == [kind |-> "nojson", data |-> EmptyDict]
RespJson(data) == [kind |-> "json", data |-> data]

\* None, where the other values are dicts
NoDict == [None |-> TRUE]

\* classify without the check of the label against ACTION_DESCRIPTIONS:
\* C5 does not hold of it
classifyUnvalidated(available, resp) ==
    IF ~available THEN NoDict
    ELSE IF resp.kind # "json" THEN NoDict
    ELSE IF Has(resp.data, "action") /\ IsStr(resp.data["action"])
         THEN resp.data
    ELSE NoDict

\* LLMClassifier.classify: the validated object, or None
classify(available, resp) ==
    IF ~available THEN NoDict
    ELSE IF resp.kind # "json" THEN NoDict
    ELSE IF Has(resp.data, "action")
            /\ IsStr(resp.data["action"])
            /\ resp.data["action"].str \in ACTION_DESCRIPTIONS
         THEN resp.data
    ELSE NoDict

-----------------------------------------------------------------------------
(* Tier 3: the learning cache and its file *)

Entry(action, params, source, examples) ==
    [action |-> action, params |-> params, source |-> source, examples |-> examples]

KeyIndex(c, key) ==
    LET hits == {i \in DOMAIN c : c[i].key = key}
    IN IF hits = {} THEN 0 ELSE CHOOSE i \in hits : TRUE

Keys(c) == {c[i].key : i \in DOMAIN c}

\* d[key] = entry on an insertion-ordered dict
DictSet(c, key, entry) ==
    IF KeyIndex(c, key) # 0
    THEN [c EXCEPT ![KeyIndex(c, key)] = [key |-> key, entry |-> entry]]
    ELSE Append(c, [key |-> key, entry |-> entry])

\* del d[key]
DictDel(c, key) == SelectSeq(c, LAMBDA kv : kv.key # key)

\* json.dump(self.cache, f): the members of the object, in dict order
JsonDump(c) ==
    [i \in DOMAIN c |->
        <<c[i].key, << <<"action", c[i].entry.action>>,
                       <<"params", c[i].entry.params>>,
                       <<"source", c[i].entry.source>>,
                       <<"examples", c[i].entry.examples>> >> >>]

\* the dict a JSON object with the members ms denotes
ObjectOf(ms) ==
    [n \in {ms[j][1] : j \in DOMAIN ms} |->
        ms[CHOOSE j \in DOMAIN ms : ms[j][1] = n][2]]

\* a load that loses the params of the entries: C10 does not hold of it
JsonLoadNoParams(doc) ==
    [i \in DOMAIN doc |->
        [key |-> doc[i][1],
         entry |-> [n \in DOMAIN ObjectOf(doc[i][2]) |->
                      IF n = "params" THEN EmptyDict ELSE ObjectOf(doc[i][2])[n]]]]

\* json.load(f) of such a document: whatever members each object has
JsonLoad(doc) ==
    [i \in DOMAIN doc |-> [key |-> doc[i][1], entry |-> ObjectOf(doc[i][2])]]

NoFile == [state |-> "missing", doc |-> <<>>]

\* LearningCache._save: the file after a write attempt.  "denied": open()
\* raises and the file stays; "full": open() truncated it and the dump failed.
_save(c, d, mode) ==
    CASE mode = "ok" -> [state |-> "ok", doc |-> JsonDump(c)]
      [] mode = "denied" -> d
      [] OTHER -> [state |-> "corrupt", doc |-> <<>>]

\* LearningCache._load: the cache a new process starts with
_load(d) == IF d.state = "ok" THEN JsonLoad(d.doc) ELSE <<>>

\* a store into a new dict, which loses the entries there were: C26 does not
\* hold of it
storeLosingOthers(c, d, mode, phrase, action, params, source, examples) ==
    LET key == Lower(Strip(phrase))
        c2 == DictSet(<<>>, key, Entry(action, params, source, examples))
    IN <<c2, _save(c2, d, mode)>>

\* a store that keeps the entry only when the write succeeds: C16 does not
\* hold of it
storeOnlyIfWritten(c, d, mode, phrase, action, params, source, examples) ==
    LET key == Lower(Strip(phrase))
        c2 == DictSet(c, key, Entry(action, params, source, examples))
    IN IF mode = "ok" THEN <<c2, _save(c2, d, mode)>> ELSE <<c, d>>

\* LearningCache.store: <<cache, file>> afterwards
store(c, d, mode, phrase, action, params, source, examples) ==
    LET key == Lower(Strip(phrase))
        c2 == DictSet(c, key, Entry(action, params, source, examples))
    IN <<c2, _save(c2, d, mode)>>

\* LearningCache.lookup: the entry or None
lookup(c, phrase) ==
    LET i == KeyIndex(c, Lower(Strip(phrase)))
    IN IF i = 0 THEN NoDict ELSE c[i].entry

\* LearningCache.forget: <<cache, file, removed>>
forget(c, d, mode, phrase) ==
    LET key == Lower(Strip(phrase))
    IN IF KeyIndex(c, key) # 0
       THEN <<DictDel(c, key), _save(DictDel(c, key), d, mode), TRUE>>
       ELSE <<c, d, FALSE>>

CachedLabel(phrase) == <<"CACHED:">> \o phrase

RECURSIVE get_tfidf_entries(_)
get_tfidf_entries(c) ==
    IF c = <<>> THEN <<>>
    ELSE LET phrase == c[1].key
             data == c[1].entry
         IN << [action |-> CachedLabel(phrase), text |-> phrase] >>
            \o [i \in DOMAIN data.examples |->
                  [action |-> CachedLabel(phrase), text |-> data.examples[i]]]
            \o get_tfidf_entries(Tail(c))

\* get_tfidf_entries does not raise on c: data["action"] finds its key in
\* every entry
Indexable(c) == \A i \in DOMAIN c : Has(c[i].entry, "action")

\* IntentEngine._build_index: a new matcher over knowledge base and cache
_build_index(c) == BuildMatcher(KbDocs(1) \o get_tfidf_entries(c))

-----------------------------------------------------------------------------
(* The parameter extractor *)

\* schema.Command, with the dataclass defaults
Command(action) ==
    [action |-> action, query |-> None, package |-> None, direction |-> None,
     amount |-> 1, text |-> None, x |-> None, y |-> None]

Ok(cmd) == [kind |-> "cmd", cmd |-> cmd]
Nothing == [kind |-> "none", cmd |-> Command(None)]
Raised == [kind |-> "raise", cmd |-> Command(None)]
\* an action whose extraction rule the model leaves out
Unmodelled == [kind |-> "unmodelled", cmd |-> Command(None)]
\* a bool returned
Bool(b) == [kind |-> IF b THEN "True" ELSE "False", cmd |-> Command(None)]

\* len() of the string a token sequence stands for
RECURSIVE StrLen(_)
StrLen(s) ==
    IF s = <<>> THEN 0
    ELSE IF Len(s) = 1 THEN Len(s[1])
    ELSE Len(s[1]) + 1 + StrLen(Tail(s))

\* verb put into a list sorted by falling length, before the first that is
\* not longer
RECURSIVE InsertByLen(_, _)
InsertByLen(verb, sorted) ==
    IF sorted = <<>> \/ StrLen(verb) >= StrLen(sorted[1]) THEN <<verb>> \o sorted
    ELSE <<sorted[1]>> \o InsertByLen(verb, Tail(sorted))

\* sorted(verbs, key=len, reverse=True), which is stable
RECURSIVE SortByLen(_)
SortByLen(verbs) ==
    IF verbs = <<>> THEN <<>>
    ELSE InsertByLen(verbs[1], SortByLen(Tail(verbs)))

\* first index >= from at which pat occurs in s, or 0
IndexOf(s, pat, from) ==
    LET hits == {i \in from..(Len(s) - Len(pat) + 1) :
                    SubSeq(s, i, i + Len(pat) - 1) = pat}
    IN IF hits = {} THEN 0 ELSE CHOOSE i \in hits : \A j \in hits : i <= j

\* first index >= from of a token of the set, or 0
IndexIn(s, set, from) ==
    LET hits == {i \in from..Len(s) : s[i] \in set}
    IN IF hits = {} THEN 0 ELSE CHOOSE i \in hits : \A j \in hits : i <= j

\* text after the first 'verb ' of the first verb, longest first, that has
\* text after it; None when there is none
RECURSIVE AfterSorted(_, _)
AfterSorted(text, verbs) ==
    IF verbs = <<>> THEN None
    ELSE LET i == IndexOf(text, verbs[1], 1)
         IN IF i # 0 /\ i + Len(verbs[1]) <= Len(text)
            THEN SubSeq(text, i + Len(verbs[1]), Len(text))
            ELSE AfterSorted(text, Tail(verbs))

_after(text, verbs) == AfterSorted(text, SortByLen(verbs))

DropSuffix(text, suffix) ==
    IF Len(text) > Len(suffix)
       /\ SubSeq(text, Len(text) - Len(suffix) + 1, Len(text)) = suffix
    THEN SubSeq(text, 1, Len(text) - Len(suffix))
    ELSE text

\* the first digit run of a token, or -1
DigitRun(w) ==
    CASE w = "4th" -> 4
      [] w = "5" -> 5
      [] w = "100" -> 100
      [] OTHER -> -1

\* tokens in which "more", "lot" or "much" occurs
MagnitudeWords == {"more", "lot", "much", "lots"}

\* '<contact> [on|in <app>]' at the end of a message pattern: the app is the
\* last token when the one before it is on/in and a contact is left
TrailingApp(rest) ==
    Len(rest) >= 3 /\ rest[Len(rest) - 1] \in {"on", "in"}

\* the patterns of _extract_send on t, the stripped lowercased text
SendPatterns(raw, t) ==
    LET base == [Command(A("SEND_MESSAGE")) EXCEPT !.package = <<"whatsapp">>]
        \* send|tell <msg> to <contact> [on|in <app>]
        i1 == IndexIn(t, {"send", "tell"}, 1)
        j1 == IF i1 = 0 THEN 0
              ELSE LET hits == {j \in (i1 + 2)..(Len(t) - 1) : t[j] = "to"}
                   IN IF hits = {} THEN 0 ELSE CHOOSE j \in hits : \A k \in hits : j <= k
        r1 == SubSeq(t, j1 + 1, Len(t))
        p1 == LET hits == {p \in 2..(Len(r1) - 1) : r1[p] \in {"on", "in"}}
              IN IF hits = {} THEN 0 ELSE CHOOSE p \in hits : \A k \in hits : p <= k
        \* text|message <contact> <msg> [on|in <app>]
        i2 == IndexIn(t, {"text", "message"}, 1)
        r2 == SubSeq(t, i2 + 2, Len(t))
        \* message|text|dm <contact> saying|that <msg>
        h3 == {i \in 1..(Len(t) - 3) :
                  t[i] \in {"message", "text", "dm"} /\ t[i + 2] \in {"saying", "that"}}
        i3 == IF h3 = {} THEN 0 ELSE CHOOSE i \in h3 : \A k \in h3 : i <= k
        \* chat with|chat|message|text|dm <contact> [on|in <app>]
        i4 == IndexIn(t, {"chat", "message", "text", "dm"}, 1)
        r4 == IF t[i4] = "chat" /\ i4 + 2 <= Len(t) /\ t[i4 + 1] = "with"
              THEN SubSeq(t, i4 + 2, Len(t))
              ELSE SubSeq(t, i4 + 1, Len(t))
        \* whatsapp|wa <contact> <msg>
        i5 == IndexIn(t, {"whatsapp", "wa"}, 1)
    IN IF j1 # 0
       THEN [base EXCEPT
               !.text = SubSeq(t, i1 + 1, j1 - 1),
               !.query = IF p1 = 0 THEN r1 ELSE SubSeq(r1, 1, p1 - 1),
               !.package = IF p1 = 0 THEN <<"whatsapp">>
                           ELSE SubSeq(r1, p1 + 1, Len(r1))]
       ELSE IF i2 # 0 /\ i2 + 2 <= Len(t)
       THEN [base EXCEPT
               !.query = <<t[i2 + 1]>>,
               !.text = IF TrailingApp(r2) THEN SubSeq(r2, 1, Len(r2) - 2) ELSE r2,
               !.package = IF TrailingApp(r2) THEN <<r2[Len(r2)]>> ELSE <<"whatsapp">>]
       ELSE IF i3 # 0
       THEN [base EXCEPT !.query = <<t[i3 + 1]>>, !.text = SubSeq(t, i3 + 3, Len(t))]
       ELSE IF i4 # 0 /\ i4 + 1 <= Len(t)
       THEN [base EXCEPT
               !.query = IF TrailingApp(r4) THEN SubSeq(r4, 1, Len(r4) - 2) ELSE r4,
               !.text = <<>>,
               !.package = IF TrailingApp(r4) THEN <<r4[Len(r4)]>> ELSE <<"whatsapp">>]
       ELSE IF i5 # 0 /\ i5 + 1 <= Len(t)
       THEN [base EXCEPT !.query = <<t[i5 + 1]>>, !.text = SubSeq(t, i5 + 2, Len(t))]
       ELSE [base EXCEPT !.query = raw, !.text = <<>>]

_extract_send(raw) == SendPatterns(raw, Strip(Lower(raw)))

\* the patterns of _extract_search on t, the stripped lowercased text
SearchPatterns(raw, t) ==
    LET base == Command(A("SEARCH_IN_APP"))
        \* search|look up|find <query> on|in <app>
        h1 == {i \in 1..Len(t) :
                  \/ t[i] \in {"search", "find"}
                  \/ (i + 1 <= Len(t) /\ t[i] = "look" /\ t[i + 1] = "up")}
        i1 == IF h1 = {} THEN 0 ELSE CHOOSE i \in h1 : \A k \in h1 : i <= k
        s1 == IF i1 # 0 /\ t[i1] = "look" THEN i1 + 2 ELSE i1 + 1
        p1 == IF i1 = 0 THEN 0
              ELSE LET hits == {p \in (s1 + 1)..(Len(t) - 1) : t[p] \in {"on", "in"}}
                   IN IF hits = {} THEN 0 ELSE CHOOSE p \in hits : \A k \in hits : p <= k
        \* youtube|google [search] <query>
        i2 == IndexIn(t, {"youtube", "google"}, 1)
        s2 == IF i2 + 2 <= Len(t) /\ t[i2 + 1] = "search" THEN i2 + 2 ELSE i2 + 1
        \* search|look up [for] <query>
        h3 == {i \in 1..(Len(t) - 1) :
                  \/ t[i] = "search"
                  \/ (i + 2 <= Len(t) /\ t[i] = "look" /\ t[i + 1] = "up")}
        i3 == IF h3 = {} THEN 0 ELSE CHOOSE i \in h3 : \A k \in h3 : i <= k
        a3 == IF t[i3] = "look" THEN i3 + 2 ELSE i3 + 1
        s3 == IF a3 + 1 <= Len(t) /\ t[a3] = "for" THEN a3 + 1 ELSE a3
    IN IF p1 # 0
       THEN [base EXCEPT !.query = SubSeq(t, s1, p1 - 1),
                         !.text = SubSeq(t, p1 + 1, Len(t))]
       ELSE IF i2 # 0 /\ i2 + 1 <= Len(t)
       THEN [base EXCEPT !.query = SubSeq(t, s2, Len(t)), !.text = <<t[i2]>>]
       ELSE IF i3 # 0
       THEN [base EXCEPT !.query = SubSeq(t, s3, Len(t))]
       ELSE [base EXCEPT !.query = raw]

_extract_search(raw) == SearchPatterns(raw, Strip(Lower(raw)))

NoParamActions ==
    {A("EXIT"), A("WAKE"), A("BACK"), A("HOME"), A("CLOSE_ALL"), A("CLOSE_APP"),
     A("REINDEX_APPS"), A("TEACH_LAST"), A("LIST_MAPPINGS"),
     A("MEDIA_PLAY"), A("MEDIA_PAUSE"), A("MEDIA_PLAY_PAUSE"),
     A("MEDIA_NEXT"), A("MEDIA_PREVIOUS"), A("TAP_SEND"),
     A("VOLUME_MUTE"), A("VOLUME_UNMUTE"), A("SCREENSHOT"), A("VOLUME_MIN")}

\* actions with an extraction rule that the model leaves out: no call of the
\* model reaches them (NeverUnmodelled)
LeftOutActions ==
    {A("SCROLL_DOWN"), A("SCROLL_UP"), A("SCROLL_LEFT"), A("SCROLL_RIGHT"),
     A("SWIPE_LEFT"), A("SWIPE_RIGHT"), A("FIND_APP"), A("TYPE_TEXT"),
     A("TYPE_AND_ENTER"), A("OPEN_CONTENT_IN_APP"), A("TAP"), A("VISION_QUERY"),
     A("FIND_VISUAL"), A("TEACH_CUSTOM"), A("FORGET_MAPPING"), A("KEYEVENT")}

\* the volume branch: the amount from the hint, the digits or the adverbs
ExtractVolume(action, t, llm_params) ==
    LET hinted == Has(llm_params, "amount") /\ Truthy(llm_params["amount"])
        digits == {i \in DOMAIN t : DigitRun(t[i]) >= 0}
    IN IF hinted
       THEN IF IntOk(llm_params["amount"])
            THEN Ok([Command(action) EXCEPT !.amount = IntOf(llm_params["amount"])])
            ELSE Raised
       ELSE IF digits # {}
       THEN Ok([Command(action) EXCEPT
                  !.amount = DigitRun(t[CHOOSE i \in digits : \A j \in digits : i <= j])])
       ELSE IF \E i \in DOMAIN t : t[i] \in MagnitudeWords
       THEN Ok([Command(action) EXCEPT !.amount = 5])
       ELSE Ok([Command(action) EXCEPT !.amount = 2])

\* the OPEN_APP branch; app is the text after the open verb (or None)
ExtractOpenApp(action, raw, llm_params, app) ==
    LET app_clean == SelectSeq(app,
                       LAMBDA w : w \notin {"the", "app", "application", "up", "my"})
    IN IF Has(llm_params, "app") /\ Truthy(llm_params["app"])
       THEN Ok([Command(action) EXCEPT !.query = llm_params["app"].str])
       ELSE IF app # None /\ app_clean # <<>>
       THEN Ok([Command(action) EXCEPT !.query = app_clean])
       ELSE Ok([Command(action) EXCEPT !.query = raw])

\* the two re.sub calls of the TYPE_AND_SEND branch
TypedText(text) ==
    DropSuffix(IF DropSuffix(text, <<"and", "hit", "send">>) # text
               THEN DropSuffix(text, <<"and", "hit", "send">>)
               ELSE DropSuffix(text, <<"and", "send">>),
               <<"then", "send">>)

\* the TYPE_AND_SEND branch; text is the text after the typing verb (or None),
\* cleaned the cleaned text
ExtractTypeAndSend(action, raw, text, cleaned) ==
    IF text # None /\ cleaned # <<>>
    THEN Ok([Command(action) EXCEPT !.text = cleaned])
    ELSE Ok([Command(action) EXCEPT !.text = raw])

\* the SEND_MESSAGE branch
ExtractSendMessage(action, raw, llm_params) ==
    LET contact == Get(llm_params, "contact", VStr(<<>>))
        message == Get(llm_params, "message", VStr(<<>>))
        app == Get(llm_params, "app", VStr(<<"whatsapp">>))
    IN IF llm_params # EmptyDict /\ Truthy(contact)
       THEN Ok([Command(action) EXCEPT
                  !.query = contact.str,
                  !.text = message.str,
                  !.package = IF Truthy(app) THEN app.str ELSE <<"whatsapp">>])
       ELSE Ok(_extract_send(raw))

\* the SEARCH_IN_APP branch
ExtractSearch(action, raw, llm_params) ==
    IF llm_params # EmptyDict /\ Truthy(Get(llm_params, "query", VStr(<<>>)))
    THEN Ok([Command(action) EXCEPT
               !.query = llm_params["query"].str,
               !.text = Get(llm_params, "app", VStr(<<>>)).str])
    ELSE Ok(_extract_search(raw))

\* extract, with raw the stripped utterance and t its lowercase
ExtractFrom(action, raw, t, llm_params) ==
    IF action \in NoParamActions THEN Ok(Command(action))
    ELSE IF action = A("VOLUME_MAX")
    THEN Ok([Command(A("VOLUME_UP")) EXCEPT !.amount = 15])
    ELSE IF action \in {A("VOLUME_UP"), A("VOLUME_DOWN")}
    THEN ExtractVolume(action, t, llm_params)
    ELSE IF action \in {A("BRIGHTNESS_UP"), A("BRIGHTNESS_DOWN")}
    THEN Ok([Command(action) EXCEPT !.amount = 1])
    ELSE IF action = A("OPEN_APP")
    THEN ExtractOpenApp(action, raw, llm_params,
                        _after(t, << <<"open">>, <<"launch">>, <<"start">>,
                                     <<"go", "to">>, <<"switch", "to">>, <<"run">>,
                                     <<"take", "me", "to">> >>))
    ELSE IF action = A("TYPE_AND_SEND")
    THEN ExtractTypeAndSend(action, raw,
                            _after(t, << <<"write">>, <<"type">>, <<"send">> >>),
                            TypedText(_after(t, << <<"write">>, <<"type">>, <<"send">> >>)))
    ELSE IF action = A("SEND_MESSAGE") THEN ExtractSendMessage(action, raw, llm_params)
    ELSE IF action = A("SEARCH_IN_APP") THEN ExtractSearch(action, raw, llm_params)
    ELSE IF action = A("SCREEN_INFO")
    THEN Ok([Command(action) EXCEPT !.query = raw])
    ELSE IF action \in LeftOutActions THEN Unmodelled
    ELSE Ok([Command(action) EXCEPT !.query = raw])

\* ParamExtractor.extract; llm_params None is the empty dict (both are falsy,
\* and the code only tests truth before reading it)
extract(action, utterance, llm_params) ==
    ExtractFrom(action, Strip(utterance), Lower(Strip(utterance)), llm_params)

-----------------------------------------------------------------------------
(* Tier 0: the regex fast paths, on the tokens of the lowercased utterance *)

\* tokens the pattern text 'screen' matches at their start
ScreenWords == {"screen", "screens", "screenshot"}

Ordinals == {"first", "second", "third", "fourth", "fifth", "last",
             "1st", "2nd", "3rd", "4th", "5th"}

At(t, i) == IF i \in DOMAIN t THEN t[i] ELSE ""

\* ' on [the] screen' or ' and tap|click|press|select' starts at token p
TargetEnds(t, p) ==
    \/ /\ At(t, p) = "on"
       /\ \/ At(t, p + 1) \in ScreenWords
          \/ At(t, p + 1) = "the" /\ At(t, p + 2) \in ScreenWords
    \/ At(t, p) = "and" /\ At(t, p + 1) \in {"tap", "click", "press", "select"}

\* first token of the target when the find-verb is at token i, or 0
FindVerbEnd(t, i) ==
    IF At(t, i) = "find" THEN i + 1
    ELSE IF At(t, i) \in {"search", "look"} /\ At(t, i + 1) = "for" THEN i + 2
    ELSE 0

\* <<first, last>> token of group 1 for the find-verb at token i, or <<0, 0>>:
\* the optional 'the' is taken when a target still follows it
FindTarget(t, i) ==
    LET e == FindVerbEnd(t, i)
        ends(s) == {p \in (s + 1)..Len(t) : TargetEnds(t, p)}
        first(S) == CHOOSE p \in S : \A q \in S : p <= q
    IN IF e = 0 THEN <<0, 0>>
       ELSE IF At(t, e) = "the" /\ ends(e + 1) # {} THEN <<e + 1, first(ends(e + 1)) - 1>>
       ELSE IF ends(e) # {} THEN <<e, first(ends(e)) - 1>>
       ELSE <<0, 0>>

\* 'search for X on the screen' / 'find X and tap it': the query, or None
Tier0Find(t) ==
    LET hits == {i \in DOMAIN t : FindTarget(t, i) # <<0, 0>>}
        i == CHOOSE i \in hits : \A j \in hits : i <= j
        g == FindTarget(t, i)
    IN IF hits = {} THEN None
       ELSE DropSuffix(DropSuffix(SubSeq(t, g[1], g[2]), <<"button">>), <<"icon">>)

\* verb [on] [the] ordinal item: the query, or None
Tier0Ordinal(t) ==
    LET k1 == IF At(t, 2) = "on" THEN 3 ELSE 2
        k == IF At(t, k1) = "the" THEN k1 + 1 ELSE k1
    IN IF /\ At(t, 1) \in {"tap", "click", "select", "open", "press", "hit", "choose"}
          /\ At(t, k) \in Ordinals
          /\ k + 1 <= Len(t)
       THEN SubSeq(t, k, Len(t))
       ELSE None

\* [the] ordinal item: the query, or None
Tier0Bare(t) ==
    LET k == IF At(t, 1) = "the" THEN 2 ELSE 1
    IN IF At(t, k) \in Ordinals /\ k + 1 <= Len(t)
       THEN SubSeq(t, k, Len(t))
       ELSE None

\* the Tier-0 block of _classify_single: the query of the VISION_QUERY, or None
Tier0(t) ==
    IF Tier0Find(t) # None THEN Tier0Find(t)
    ELSE IF Tier0Ordinal(t) # None THEN Tier0Ordinal(t)
    ELSE Tier0Bare(t)

-----------------------------------------------------------------------------
(* The engine.  An operation takes the engine's state S = [cache, disk,    *)
(* matcher, stats] and its environment E = [mode, available] and yields    *)
(* [S, res, ev]: the state after, the value returned (or the exception)    *)
(* and the steps taken, in order.                                          *)

TIER1_CONFIDENT == 650
TIER1_UNCERTAIN == 350
TIER1_FLOOR == 150

Event(e, phrase, info) == [e |-> e, phrase |-> phrase, info |-> info]

Bump(S, counter) == [S EXCEPT !.stats[counter] = @ + 1]

Out(S, res, ev) == [S |-> S, res |-> res, ev |-> ev]

\* the params _tier2_classify stores
StoredParams(llm_data) ==
    [k \in {k \in DOMAIN llm_data : k # "action" /\ Truthy(llm_data[k])} |-> llm_data[k]]

\* IntentEngine._tier2_classify
_tier2_classify(S, E, utterance, resp) ==
    LET llm_data == classify(E.available, resp)
        action == llm_data["action"].str
        st == store(S.cache, S.disk, E.mode, Lower(utterance), action,
                    StoredParams(llm_data), "llm", <<>>)
        S2 == [Bump(S, "tier2") EXCEPT !.cache = st[1], !.disk = st[2],
                                       !.matcher = _build_index(st[1])]
    IN IF llm_data = NoDict
       THEN Out(S, Nothing, <<Event("tier2", utterance, "rejected")>>)
       ELSE Out(S2, extract(action, utterance, llm_data),
                <<Event("tier2", utterance, "accepted"),
                  Event("store", Lower(Strip(Lower(utterance))), "llm"),
                  Event("rebuild", <<>>, "")>>)

\* resolution through a cache entry: cache_hit counted, the command built
\* from the cached action and params
CacheHit(S, raw, entry, ev) ==
    Out(Bump(S, "cache_hit"), extract(entry.action, raw, entry.params), ev)

\* the best Tier-1 match trusted: tier1 counted
Tier1Guess(S, raw, best_action, ev) ==
    Out(Bump(S, "tier1"), extract(best_action, raw, EmptyDict),
        ev \o <<Event("tier1", raw, "")>>)

\* Tier 1 / Tier 2 without the tests of self.llm.available: C13 does not hold
\* of it
Tier12AlwaysAsks(S, E, raw, ev, matches, llm_result) ==
    LET best_score == matches[1][1]
        best_action == matches[1][2]
        is_cached == Len(best_action) >= 1 /\ best_action[1] = "CACHED:"
        cached_data == lookup(S.cache, Tail(best_action))
        evT == ev \o llm_result.ev
    IN IF matches # <<>> /\ is_cached /\ cached_data # NoDict
       THEN CacheHit(S, raw, cached_data,
                     ev \o <<Event("lookup", Tail(best_action), "hit")>>)
       ELSE IF matches # <<>> /\ best_score >= TIER1_CONFIDENT
       THEN Tier1Guess(S, raw, best_action, ev)
       ELSE IF matches # <<>> /\ best_score >= TIER1_UNCERTAIN
       THEN IF llm_result.res.kind # "none"
            THEN Out(llm_result.S, llm_result.res, evT)
            ELSE Tier1Guess(S, raw, best_action, evT)
       ELSE IF llm_result.res.kind # "none"
       THEN Out(llm_result.S, llm_result.res, evT)
       ELSE IF matches # <<>> /\ best_score > TIER1_FLOOR
       THEN Tier1Guess(S, raw, best_action, evT)
       ELSE Out(Bump(S, "miss"), Nothing, evT \o <<Event("miss", raw, "")>>)

\* _classify_single from Tier 1 on: matches is what the matcher returned and
\* llm_result what _tier2_classify does at the points where the code calls it
\* Tier 1 / Tier 2 without the floor of the final fallback: C22 does not hold
\* of it
Tier12NoFloor(S, E, raw, ev, matches, llm_result) ==
    LET best_score == matches[1][1]
        best_action == matches[1][2]
        is_cached == Len(best_action) >= 1 /\ best_action[1] = "CACHED:"
        cached_data == lookup(S.cache, Tail(best_action))
        evT == IF E.available THEN ev \o llm_result.ev ELSE ev
    IN IF matches # <<>> /\ is_cached /\ cached_data # NoDict
       THEN CacheHit(S, raw, cached_data,
                     ev \o <<Event("lookup", Tail(best_action), "hit")>>)
       ELSE IF matches # <<>> /\ best_score >= TIER1_CONFIDENT
       THEN Tier1Guess(S, raw, best_action, ev)
       ELSE IF matches # <<>> /\ best_score >= TIER1_UNCERTAIN
       THEN IF E.available /\ llm_result.res.kind # "none"
            THEN Out(llm_result.S, llm_result.res, evT)
            ELSE Tier1Guess(S, raw, best_action, evT)
       ELSE IF E.available /\ llm_result.res.kind # "none"
       THEN Out(llm_result.S, llm_result.res, evT)
       ELSE IF matches # <<>> /\ best_score > 0
       THEN Tier1Guess(S, raw, best_action, evT)
       ELSE Out(Bump(S, "miss"), Nothing, evT \o <<Event("miss", raw, "")>>)

Tier12(S, E, raw, ev, matches, llm_result) ==
    LET best_score == matches[1][1]
        best_action == matches[1][2]
        is_cached == Len(best_action) >= 1 /\ best_action[1] = "CACHED:"
        cached_data == lookup(S.cache, Tail(best_action))
        evT == IF E.available THEN ev \o llm_result.ev ELSE ev
    IN IF matches # <<>> /\ is_cached /\ cached_data # NoDict
       THEN CacheHit(S, raw, cached_data,
                     ev \o <<Event("lookup", Tail(best_action), "hit")>>)
       ELSE IF matches # <<>> /\ best_score >= TIER1_CONFIDENT
       THEN Tier1Guess(S, raw, best_action, ev)
       ELSE IF matches # <<>> /\ best_score >= TIER1_UNCERTAIN
       THEN IF E.available /\ llm_result.res.kind # "none"
            THEN Out(llm_result.S, llm_result.res, evT)
            ELSE Tier1Guess(S, raw, best_action, evT)
       ELSE IF E.available /\ llm_result.res.kind # "none"
       THEN Out(llm_result.S, llm_result.res, evT)
       ELSE IF matches # <<>> /\ best_score > TIER1_FLOOR
       THEN Tier1Guess(S, raw, best_action, evT)
       ELSE Out(Bump(S, "miss"), Nothing, evT \o <<Event("miss", raw, "")>>)

\* _classify_single with Tier 0 placed after Tier 1: a pattern answers only
\* when the matcher returns nothing.  C4 does not hold of it
Tier0BlockAfterTier1(S, E, raw, t, resp, target) ==
    IF target # None /\ match(S.matcher, raw, 3) = <<>>
    THEN Out(S, Ok([Command(A("VISION_QUERY")) EXCEPT !.query = target]),
             <<Event("lookup", t, "miss"), Event("tier0", t, "hit")>>)
    ELSE Tier12(S, E, raw,
                <<Event("lookup", t, "miss"), Event("tier0", t, "miss"),
                  Event("match", raw, "")>>,
                match(S.matcher, raw, 3), _tier2_classify(S, E, raw, resp))

\* _classify_single from Tier 0 on: target is the query a pattern gives, or None
Tier0Block(S, E, raw, t, resp, target) ==
    IF target # None
    THEN Out(S, Ok([Command(A("VISION_QUERY")) EXCEPT !.query = target]),
             <<Event("lookup", t, "miss"), Event("tier0", t, "hit")>>)
    ELSE Tier12(S, E, raw,
                <<Event("lookup", t, "miss"), Event("tier0", t, "miss"),
                  Event("match", raw, "")>>,
                match(S.matcher, raw, 3), _tier2_classify(S, E, raw, resp))

\* _classify_single from the exact cache check on: cached is the entry or None
Tier3Check(S, E, raw, t, resp, cached) ==
    IF cached # NoDict
    THEN CacheHit(S, raw, cached, <<Event("lookup", t, "hit")>>)
    ELSE Tier0Block(S, E, raw, t, resp, Tier0(t))

\* IntentEngine._classify_single
_classify_single(S, E, utterance, resp) ==
    IF Strip(utterance) = <<>> THEN Out(S, Nothing, <<>>)
    ELSE Tier3Check(S, E, Strip(utterance), Lower(Strip(utterance)), resp,
                    lookup(S.cache, Lower(Strip(utterance))))

RECURSIVE Remaining(_, _, _, _, _, _, _)

\* understand after a _classify_single returned c: a part that is a command
\* is valid and the loop goes on; the whole utterance's result is returned;
\* an exception leaves the call
Classified(S, E, raw, todo, resps, valid, ev, c) ==
    IF todo = <<>> \/ c.res.kind \notin {"cmd", "none"}
    THEN Out(c.S, c.res, ev \o c.ev)
    ELSE Remaining(c.S, E, raw, Tail(todo), Tail(resps),
                   IF c.res.kind = "cmd" THEN Append(valid, todo[1]) ELSE valid,
                   ev \o c.ev)

\* understand from the loop on: the parts still to classify, then MULTI_STEP
\* when two were valid, else the whole utterance.  resps[1] is what the LLM
\* endpoint answers if the next _classify_single asks it.
Remaining(S, E, raw, todo, resps, valid, ev) ==
    IF todo = <<>> /\ Len(valid) >= 2
    THEN Out(S, Ok([Command(A("MULTI_STEP")) EXCEPT !.query = Join("|", valid)]), ev)
    ELSE Classified(S, E, raw, todo, resps, valid,
                    ev \o <<Event(IF todo = <<>> THEN "whole" ELSE "part",
                                  IF todo = <<>> THEN raw ELSE todo[1], "")>>,
                    _classify_single(S, E, IF todo = <<>> THEN raw ELSE todo[1],
                                     resps[1]))

\* 'if parts and len(parts) >= 2': the parts the loop runs over
LoopParts(parts) == IF parts # None /\ Len(parts) >= 2 THEN parts ELSE <<>>

\* understand counting a blank utterance as a miss: C12 does not hold of it
understandCountingBlank(S, E, utterance, resps) ==
    IF Strip(utterance) = <<>> THEN Out(Bump(S, "miss"), Nothing, <<>>)
    ELSE Remaining(S, E, Strip(utterance),
                   LoopParts(split_compound(Strip(utterance))), resps, <<>>, <<>>)

\* IntentEngine.understand; resps[k] is what the LLM endpoint answers if the
\* k-th _classify_single of the call asks it
understand(S, E, utterance, resps) ==
    IF Strip(utterance) = <<>> THEN Out(S, Nothing, <<>>)
    ELSE Remaining(S, E, Strip(utterance),
                   LoopParts(split_compound(Strip(utterance))), resps, <<>>, <<>>)

\* the stores of teach_action for the examples, in order
RECURSIVE StoreExamples(_, _, _, _, _, _)
StoreExamples(c, d, mode, action, params, examples) ==
    IF examples = <<>> THEN <<c, d>>
    ELSE LET st == store(c, d, mode, Lower(Strip(examples[1])), action, params, "user", <<>>)
         IN StoreExamples(st[1], st[2], mode, action, params, Tail(examples))

\* teach_action without the rebuild of the index: C15 does not hold of it
teach_actionNoRebuild(S, E, trigger, action, params, examples) ==
    LET st == store(S.cache, S.disk, E.mode, Lower(Strip(trigger)), action, params,
                    "user", examples)
        se == StoreExamples(st[1], st[2], E.mode, action, params, examples)
    IN Out([S EXCEPT !.cache = se[1], !.disk = se[2]], Nothing, <<>>)

\* IntentEngine.teach_action
teach_action(S, E, trigger, action, params, examples) ==
    LET st == store(S.cache, S.disk, E.mode, Lower(Strip(trigger)), action, params,
                    "user", examples)
        se == StoreExamples(st[1], st[2], E.mode, action, params, examples)
    IN Out([S EXCEPT !.cache = se[1], !.disk = se[2], !.matcher = _build_index(se[1])],
           Nothing, <<Event("rebuild", <<>>, "")>>)

\* IntentEngine.forget_action
forget_action(S, E, trigger) ==
    LET f == forget(S.cache, S.disk, E.mode, trigger)
    IN IF f[3]
       THEN Out([S EXCEPT !.cache = f[1], !.disk = f[2], !.matcher = _build_index(f[1])],
                Bool(TRUE), <<Event("rebuild", <<>>, "")>>)
       ELSE Out(S, Bool(FALSE), <<>>)

-----------------------------------------------------------------------------
(* Inputs *)

Utterances ==
    { <<"blast", "it">>,
      <<"tap", "on", "4th", "mail">>,
      <<"find", "like", "on", "screen">>,
      <<"open", "chrome", "and", "search", "cats">>,
      <<"zzz", "and", "open", "chrome">>,
      <<"zzz">>,
      <<"chat">>,
      <<PAD, "Chat", PAD>>,
      <<"talk", "to", "poojitha">>,
      <<PAD>> }

\* what the LLM endpoint may answer
Responses ==
    { RespNoJson,
      RespJson(LlmObject(VStr(A("DELETE_EVERYTHING")), <<>>, VInt(0))),
      RespJson(LlmObject(VStr(A("VOLUME_UP")), <<>>, VInt(5))),
      RespJson(LlmObject(VStr(A("VOLUME_UP")), <<>>, VStr(<<"loud">>))),
      RespJson(LlmObject(VStr(A("SEND_MESSAGE")), <<"mom">>, VInt(0))) }

Teach(trigger, action, params, examples) ==
    [phrase |-> trigger, action |-> action, params |-> params, examples |-> examples]

TeachChat ==
    Teach(<<"chat">>, A("SEND_MESSAGE"),
          [contact |-> VStr(<<"mom">>), app |-> VStr(<<"whatsapp">>)],
          << <<"talk", "to", "poojitha">> >>)

TeachInputs ==
    { TeachChat,
      Teach(<<"open", "chrome", "and", "search", "cats">>, A("VOLUME_MAX"),
            EmptyDict, <<>>) }

ForgetPhrases == { <<"chat">>, <<"zzz">> }

\* a second set of inputs: utterances that end in a modifier, blank ones, and
\* a label the engine does not know
ModifierUtterances ==
    { <<"write", "hello", "and", "send">>,
      <<"type", "cats", "and", "search">>,
      <<"zzz", "and", "send">>,
      <<"zzz">>,
      <<PAD>>,
      <<>> }

ModifierResponses ==
    { RespNoJson,
      RespJson(LlmObject(VStr(A("VOLUME_UP")), <<>>, VInt(5))) }

ModifierTeachInputs ==
    { Teach(<<"zzz">>, A("DELETE_EVERYTHING"), EmptyDict, <<>>),
      Teach(<<"write", "hello", "and", "send">>, A("VOLUME_MAX"), EmptyDict, <<>>) }

ModifierForgetPhrases == { <<"zzz">> }

DiskModes == {"ok", "denied", "full"}

\* the inputs of the runs with restarts
PersistUtterances == { <<PAD, "Chat", PAD>>, <<"zzz">> }
PersistResponses ==
    { RespNoJson,
      RespJson(LlmObject(VStr(A("SEND_MESSAGE")), <<"mom">>, VInt(0))) }
PersistTeachInputs == { TeachChat }
PersistForgetPhrases == { <<"chat">> }

\* the file a first process may find: none, one that an earlier process
\* wrote, or one that is JSON but not of entries: {"zzz": {"params": {}}}
InitialFiles ==
    { NoFile,
      [state |-> "ok",
       doc |-> JsonDump(<< [key |-> <<"zzz">>,
                            entry |-> Entry(A("VOLUME_MAX"), EmptyDict, "llm", <<>>)] >>)],
      [state |-> "ok", doc |-> << <<<<"zzz">>, << <<"params", EmptyDict>> >> >> >>] }

-----------------------------------------------------------------------------
(* The state machine *)

S == [cache |-> cache, disk |-> disk, matcher |-> matcher, stats |-> stats]
E == [mode |-> disk_mode, available |-> llm_available]

NoStats == [tier1 |-> 0, tier2 |-> 0, cache_hit |-> 0, miss |-> 0]

Call(phrase) == Teach(phrase, None, EmptyDict, <<>>)

Record(op, arg, resps, o) ==
    [op |-> op, arg |-> arg, resps |-> resps, res |-> o.res, ev |-> o.ev,
     pre |-> S, env |-> E]

\* IntentEngine(): LearningCache loads the file d, the index is built over
\* the knowledge base and the loaded cache, the counters start at zero.
\* When _build_index raises there is no engine (raised; the fields are void).
IntentEngine(d) ==
    IF Indexable(_load(d))
    THEN [cache |-> _load(d), disk |-> d, matcher |-> _build_index(_load(d)),
          stats |-> NoStats, raised |-> FALSE]
    ELSE [cache |-> <<>>, disk |-> d, matcher |-> BuildMatcher(<<>>),
          stats |-> NoStats, raised |-> TRUE]

\* there is an engine to call: the last construction did not raise
Alive == ~(last.op \in {"init", "restart"} /\ last.res.kind = "raise")

\* the first process: LLMClassifier probes the endpoint once
Construct(d, available) ==
    /\ cache = IntentEngine(d).cache
    /\ disk = d
    /\ disk_mode = "ok"
    /\ matcher = IntentEngine(d).matcher
    /\ stats = NoStats
    /\ llm_available = available
    /\ calls = 0
    /\ last = [op |-> "init", arg |-> Call(<<>>), resps |-> <<>>,
               res |-> IF IntentEngine(d).raised THEN Raised ELSE Nothing,
               ev |-> <<>>,
               pre |-> [cache |-> <<>>, disk |-> d, matcher |-> BuildMatcher(<<>>),
                        stats |-> NoStats],
               env |-> [mode |-> "ok", available |-> available]]

Init == \E available \in BOOLEAN : Construct(NoFile, available)

Commit(op, arg, resps, o) ==
    /\ cache' = o.S.cache
    /\ disk' = o.S.disk
    /\ matcher' = o.S.matcher
    /\ stats' = o.S.stats
    /\ last' = Record(op, arg, resps, o)

NoAnswers == <<RespRaise, RespRaise, RespRaise>>

\* the index of the _classify_single that event i of a call belongs to
Segment(ev, i) == Cardinality({j \in 1..i : ev[j].e \in {"part", "whole"}})

\* the k-th _classify_single of the call asked the LLM endpoint
AsksAt(ev, k) == \E i \in DOMAIN ev : ev[i].e = "tier2" /\ Segment(ev, i) = k

\* the answers to draw for the k-th _classify_single of a call, given the
\* call as it runs with the answers before it: one, unused, when it does
\* not ask
AnswersAt(o, k, rs) == IF AsksAt(o.ev, k) THEN rs ELSE {RespRaise}

\* understand(u) with the answers given so far; so is that call with one
\* answer less, which is the same call when the last answer is not used
Run(u, given, so) ==
    IF given[Len(given)] = RespRaise THEN so
    ELSE understand(S, E, u, given \o NoAnswers)

\* a call of understand with an utterance of us, the LLM endpoint answering
\* from rs
UnderstandOf(us, rs) ==
    /\ Alive
    /\ calls < MaxCalls
    /\ \E u \in us :
         \E o0 \in {understand(S, E, u, NoAnswers)} :
           \E r1 \in AnswersAt(o0, 1, rs) : \E o1 \in {Run(u, <<r1>>, o0)} :
             \E r2 \in AnswersAt(o1, 2, rs) : \E o2 \in {Run(u, <<r1, r2>>, o1)} :
               \E r3 \in AnswersAt(o2, 3, rs) : \E o \in {Run(u, <<r1, r2, r3>>, o2)} :
                  /\ Len(o.S.cache) <= MaxCache
                  /\ Commit("understand", Call(u), <<r1, r2, r3>>, o)
    /\ calls' = calls + 1
    /\ UNCHANGED <<disk_mode, llm_available>>

\* a call of teach_action with an input of tis
TeachOf(tis) ==
    /\ Alive
    /\ calls < MaxCalls
    /\ \E ti \in tis :
         \E o \in {teach_action(S, E, ti.phrase, ti.action, ti.params, ti.examples)} :
            /\ Len(o.S.cache) <= MaxCache
            /\ Commit("teach_action", ti, <<>>, o)
    /\ UNCHANGED <<disk_mode, llm_available, calls>>

\* a call of forget_action with a phrase of ps
ForgetOf(ps) ==
    /\ Alive
    /\ calls < MaxCalls
    /\ \E p \in ps :
         Commit("forget_action", Call(p), <<>>, forget_action(S, E, p))
    /\ UNCHANGED <<disk_mode, llm_available, calls>>

Understand == UnderstandOf(Utterances, Responses)
TeachAction == TeachOf(TeachInputs)
ForgetAction == ForgetOf(ForgetPhrases)

Next == Understand \/ TeachAction \/ ForgetAction

Spec == Init /\ [][Next]_vars

\* the engine on the second set of inputs
UnderstandM == UnderstandOf(ModifierUtterances, ModifierResponses)
TeachActionM == TeachOf(ModifierTeachInputs)
ForgetActionM == ForgetOf(ModifierForgetPhrases)

NextM == UnderstandM \/ TeachActionM \/ ForgetActionM

SpecM == Init /\ [][NextM]_vars

\* a third set of inputs: utterances that share one word with a taught
\* example or with a built-in one, among words the index does not know; an
\* action taught under the name of a cached label
Padded(w, n) == <<w>> \o [i \in 1..n |-> "zzz"]

LabelInputs ==
    [us |-> { <<"talk", "now">>, <<"talk", "to", "poojitha">>, <<"chat">>,
              Padded("up", 8), Padded("cats", 12), <<"zzz">> },
     rs |-> { RespNoJson, RespJson(LlmObject(VStr(A("VOLUME_UP")), <<>>, VInt(5))) },
     tis |-> { TeachChat,
               Teach(<<PAD, "ZZZ", PAD>>, CachedLabel(<<"chat">>), EmptyDict, <<>>) },
     ps |-> { <<"talk", "to", "poojitha">>, <<"chat">> }]

NextL ==
    \/ UnderstandOf(LabelInputs.us, LabelInputs.rs)
    \/ TeachOf(LabelInputs.tis)
    \/ ForgetOf(LabelInputs.ps)

SpecL == Init /\ [][NextL]_vars

-----------------------------------------------------------------------------
(* Two threads on one engine: one in teach_action, statement by statement, *)
(* the other calling understand                                            *)

\* teach_action up to its call of rebuild_index: the stores of the trigger
\* and of the examples.  It starts when no rebuild is under way.
TeachStore ==
    /\ matcher = _build_index(cache)
    /\ lookup(cache, TeachChat.phrase) = NoDict
    /\ \E st \in {store(cache, disk, disk_mode, Lower(Strip(TeachChat.phrase)),
                         TeachChat.action, TeachChat.params, "user",
                         TeachChat.examples)} :
         \E se \in {StoreExamples(st[1], st[2], disk_mode, TeachChat.action,
                                  TeachChat.params, TeachChat.examples)} :
            /\ cache' = se[1]
            /\ disk' = se[2]
    /\ UNCHANGED <<disk_mode, matcher, stats, llm_available, calls, last>>

\* the next statement of _build_index in that thread: self.matcher is set to
\* a new TFIDFMatcher, a document is added to it, or build() is run
RebuildStep ==
    /\ matcher # _build_index(cache)
    /\ \E docs \in {KbDocs(1) \o get_tfidf_entries(cache)} :
          \/ /\ matcher._built
             /\ matcher' = BuildMatcher(<<>>)
          \/ /\ ~matcher._built
             /\ Len(matcher.documents) < Len(docs)
             /\ matcher' = [matcher EXCEPT
                   !.documents = Append(@, docs[Len(matcher.documents) + 1]),
                   !.doc_tokens =
                       Append(@, _tokenize(docs[Len(matcher.documents) + 1].text))]
          \/ /\ ~matcher._built
             /\ Len(matcher.documents) = Len(docs)
             /\ matcher' = BuildMatcher(matcher.documents)
    /\ UNCHANGED <<cache, disk, disk_mode, stats, llm_available, calls, last>>

\* the other thread calls understand at any point of it; the LLM endpoint,
\* if there is one, gives no answer
NextT ==
    \/ TeachStore
    \/ RebuildStep
    \/ UnderstandOf({<<"blast", "it">>, <<"talk", "now">>, <<"open", "chrome">>},
                    {RespNoJson})

SpecT == Init /\ [][NextT]_vars

\* the engine asked the example phrases of its own knowledge base
NextK ==
    \/ UnderstandOf(UNION {{ACTION_EXAMPLES[k][2][i] : i \in DOMAIN ACTION_EXAMPLES[k][2]} :
                              k \in DOMAIN ACTION_EXAMPLES},
                    {RespNoJson})
    \/ TeachOf({TeachChat})
    \/ ForgetOf({<<"chat">>})

SpecK == Init /\ [][NextK]_vars

-----------------------------------------------------------------------------
(* Processes that end and start again, on a file system that may fail *)

\* the process ends and a new one constructs the engine from the file
Restart ==
    /\ calls < MaxCalls
    /\ cache' = IntentEngine(disk).cache
    /\ matcher' = IntentEngine(disk).matcher
    /\ stats' = IntentEngine(disk).stats
    /\ \E available \in BOOLEAN : llm_available' = available
    /\ last' = [op |-> "restart", arg |-> Call(<<>>), resps |-> <<>>,
                res |-> IF IntentEngine(disk).raised THEN Raised ELSE Nothing,
                ev |-> <<>>, pre |-> S, env |-> E]
    /\ UNCHANGED <<disk, disk_mode, calls>>

\* the file system starts or stops refusing writes
SetDiskMode ==
    /\ calls < MaxCalls
    /\ \E mode \in DiskModes \ {disk_mode} : disk_mode' = mode
    /\ UNCHANGED <<cache, disk, matcher, stats, llm_available, calls, last>>

UnderstandP == UnderstandOf(PersistUtterances, PersistResponses)
TeachActionP == TeachOf(PersistTeachInputs)
ForgetActionP == ForgetOf(PersistForgetPhrases)

InitP == \E d \in InitialFiles : \E available \in BOOLEAN : Construct(d, available)

NextP == UnderstandP \/ TeachActionP \/ ForgetActionP \/ Restart \/ SetDiskMode

SpecP == InitP /\ [][NextP]_vars

-----------------------------------------------------------------------------
(* ParamExtractor.extract on its own, for the volume actions *)

\* the calls extract(action, utterance, llm_params) that are made: the three
\* volume actions, utterances with and without digits and adverbs, and the
\* hints a cache entry or an LLM answer may carry
VolumeCalls ==
    { Teach(u, a, h, <<>>) :
        u \in { <<"volume", "up">>, <<"volume", "up", "a", "lot">>,
                <<"Volume", "up", "5">>, <<"much", "more", "100">>,
                <<"turn", "it", "up", "100", "a", "lot", "5">>,
                <<"blast", "it">>, <<PAD, "louder", "much", PAD>>, <<PAD>> },
        a \in { A("VOLUME_UP"), A("VOLUME_DOWN"), A("VOLUME_MAX") },
        h \in { EmptyDict, [amount |-> VInt(5)], [amount |-> VInt(0)],
                [amount |-> VStr(<<"100">>)], [amount |-> VStr(<<>>)],
                [amount |-> VStr(<<"loud">>)], [contact |-> VStr(<<"mom">>)] } }

\* one call of the static method; the engine is not touched
ExtractCall ==
    /\ \E c \in VolumeCalls :
          last' = [op |-> "extract", arg |-> c, resps |-> <<>>,
                   res |-> extract(c.action, c.phrase, c.params), ev |-> <<>>,
                   pre |-> S, env |-> E]
    /\ UNCHANGED <<cache, disk, disk_mode, matcher, stats, llm_available, calls>>

SpecE == Init /\ [][ExtractCall]_vars

-----------------------------------------------------------------------------
(* split_compound on its own *)

\* one call of the function, on an utterance of up to MaxWords words that
\* are separators, a command verb, a modifier or neither
SplitCall ==
    /\ last.op = "init"
    /\ \E n \in 1..MaxWords :
         \E u \in [1..n -> {"cats", "and", "then", "open", "send"}] :
            last' = [op |-> "split", arg |-> Call(u), resps |-> <<>>,
                     res |-> split_compound(u), ev |-> <<>>,
                     pre |-> S, env |-> E]
    /\ UNCHANGED <<cache, disk, disk_mode, matcher, stats, llm_available, calls>>

SpecS == Init /\ [][SplitCall]_vars

-----------------------------------------------------------------------------
(* Properties.  last is the most recent call: its argument, the answers    *)
(* the LLM endpoint gave, what it returned, the steps it took, and the     *)
(* state (pre) and environment (env) it started from.                      *)

Utt == last.arg.phrase
Raw == Strip(Utt)
KeyU == Lower(Raw)

\* the most recent call was understand() on an utterance that is not blank
NonEmptyCall == last.op = "understand" /\ Raw # <<>>

NoTier2(ev) == \A i \in DOMAIN ev : ev[i].e # "tier2"

EvCount(ev, e, info) == Cardinality({i \in DOMAIN ev : ev[i].e = e /\ ev[i].info = info})

Counters == {"tier1", "tier2", "cache_hit", "miss"}

\* every action the inputs lead to has its extraction rule in the model
NeverUnmodelled == last.res.kind # "unmodelled"

\* C1: a non-empty utterance whose stripped, lowercased form is a cache key
\* is answered with the command the extractor builds from the cached action
\* and params, the exact lookup is the only step taken (no fan-out over
\* parts, no Tier 0, no Tier 1, no Tier 2), and cache_hit alone goes up, by one
C1_ExactHitBeforeEverything ==
    (NonEmptyCall /\ KeyIndex(last.pre.cache, KeyU) # 0) =>
        /\ last.res = extract(lookup(last.pre.cache, KeyU).action, Raw,
                              lookup(last.pre.cache, KeyU).params)
        /\ last.ev = <<Event("whole", Raw, ""), Event("lookup", KeyU, "hit")>>
        /\ stats = [last.pre.stats EXCEPT !.cache_hit = @ + 1]
        /\ cache = last.pre.cache

\* a call l of understand(p) in which Tier 2 classified p itself
PromotedWhole(l) ==
    /\ l.op = "understand"
    /\ \E i \in DOMAIN l.ev : l.ev[i] = Event("tier2", Strip(l.arg.phrase), "accepted")

C2_Step ==
    /\ PromotedWhole(last') =>
          /\ lookup(cache', last'.arg.phrase) # NoDict
          /\ lookup(cache', last'.arg.phrase).source = "llm"
          /\ matcher' = _build_index(cache')
    /\ (PromotedWhole(last) /\ last'.op = "understand"
                            /\ last'.arg.phrase = last.arg.phrase) =>
          /\ NoTier2(last'.ev)
          /\ last.res.kind = "cmd"
          /\ last'.res.kind = "cmd"
          /\ last'.res.cmd.action = last.res.cmd.action

\* C2: a call understand(p) in which Tier 2 classifies p leaves p in the
\* cache with source llm and the index rebuilt over that cache, and the next
\* understand(p) does not ask Tier 2 and yields a command with the action of
\* the first call
C2_TierPromotion == [][C2_Step]_vars

\* the parts of a compound that resolve to a command, each through
\* _classify_single in the state the parts before it left: <<state, parts>>
RECURSIVE Resolving(_, _, _, _, _)
Resolving(St, En, todo, resps, valid) ==
    IF todo = <<>> THEN <<St, valid>>
    ELSE LET c == _classify_single(St, En, todo[1], resps[1])
         IN Resolving(c.S, En, Tail(todo), Tail(resps),
                      IF c.res.kind = "cmd" THEN Append(valid, todo[1]) ELSE valid)

C3_Of(parts, r) ==
    /\ (last.res.kind = "cmd" /\ last.res.cmd.action = A("MULTI_STEP")) <=> Len(r[2]) >= 2
    /\ Len(r[2]) >= 2 => last.res.cmd.query = Join("|", r[2])
    /\ Len(r[2]) < 2 =>
          last.res = _classify_single(r[1], last.env, Raw,
                                      last.resps[Len(parts) + 1]).res

\* C3: when split_compound yields parts, understand returns MULTI_STEP
\* exactly when two or more of them resolve to a command, its query is then
\* those parts joined with '|' in order, and otherwise the result is that of
\* the whole utterance resolved as one
C3_MultiStepIffTwoResolve ==
    (NonEmptyCall /\ LoopParts(split_compound(Raw)) # <<>>) =>
        C3_Of(LoopParts(split_compound(Raw)),
              Resolving(last.pre, last.env, LoopParts(split_compound(Raw)),
                        last.resps, <<>>))

\* the case of C4: not a cache key, not split, a Tier-0 pattern matches
Tier0Case ==
    /\ NonEmptyCall
    /\ KeyIndex(last.pre.cache, KeyU) = 0
    /\ LoopParts(split_compound(Raw)) = <<>>
    /\ Tier0(KeyU) # None

\* C4: an utterance that is not a cache key, is not split and matches a
\* Tier-0 pattern is answered with the VISION_QUERY whose query the pattern
\* takes from the utterance, whatever the index holds and whatever Tier 2
\* would answer; Tier 1 and Tier 2 are not consulted and the cache, its file
\* and the index stay as they were
C4_Tier0Precedence ==
    Tier0Case =>
        /\ last.res = Ok([Command(A("VISION_QUERY")) EXCEPT !.query = Tier0(KeyU)])
        /\ Utt = <<"tap", "on", "4th", "mail">> => last.res.cmd.query = <<"4th", "mail">>
        /\ Utt = <<"find", "like", "on", "screen">> => last.res.cmd.query = <<"like">>
        /\ \A i \in DOMAIN last.ev :
              last.ev[i].e \notin {"match", "tier1", "tier2", "store", "rebuild"}
        /\ cache = last.pre.cache
        /\ disk = last.pre.disk
        /\ matcher = last.pre.matcher

\* a Tier-0 answer given while the index holds cached phrases and Tier 2 is
\* there to be asked
C4_Witness ==
    /\ Tier0Case
    /\ Utt = <<"tap", "on", "4th", "mail">>
    /\ last.pre.cache # <<>>
    /\ last.env.available
    /\ last.res.kind = "cmd"
    /\ last.res.cmd.action = A("VISION_QUERY")

\* a response that is not JSON or names no known action
Invalid(resp) ==
    \/ resp.kind # "json"
    \/ ~Has(resp.data, "action")
    \/ ~IsStr(resp.data["action"])
    \/ resp.data["action"].str \notin ACTION_DESCRIPTIONS

\* the response the Tier-2 step i of the last call received
RespAt(i) == last.resps[Segment(last.ev, i)]

\* C5: a Tier-2 response that is unparseable or names an unknown action is
\* rejected: the next step is the Tier-1 best guess or a miss, the label is
\* not the action of the returned command, tier2 goes up only by the number
\* of accepted answers, and a call without an accepted answer leaves the
\* cache and its file as they were
C5_UnknownActionRejected ==
    last.op = "understand" =>
        /\ \A i \in DOMAIN last.ev :
              (last.ev[i].e = "tier2" /\ Invalid(RespAt(i))) =>
                 /\ last.ev[i].info = "rejected"
                 /\ i < Len(last.ev)
                 /\ last.ev[i + 1].e \in {"tier1", "miss"}
                 /\ last.ev[i + 1].phrase = last.ev[i].phrase
                 /\ (last.res.kind = "cmd" /\ RespAt(i).kind = "json") =>
                       VStr(last.res.cmd.action) # RespAt(i).data["action"]
        /\ stats.tier2 = last.pre.stats.tier2 + EvCount(last.ev, "tier2", "accepted")
        /\ EvCount(last.ev, "tier2", "accepted") = 0 =>
              (cache = last.pre.cache /\ disk = last.pre.disk)

\* Tier 2 names an unknown action for an utterance Tier 1 is unsure about,
\* and the Tier-1 guess is returned
C5_Witness ==
    /\ last.op = "understand"
    /\ Utt = <<"talk", "to", "poojitha">>
    /\ last.resps[1] = RespJson(LlmObject(VStr(A("DELETE_EVERYTHING")), <<>>, VInt(0)))
    /\ EvCount(last.ev, "tier2", "rejected") = 1
    /\ last.res.kind = "cmd"
    /\ last.res.cmd.action = A("SEND_MESSAGE")

\* C6: understand() ends with a Command or with no command, never with an
\* exception
C6_NeverRaises == last.op = "understand" => last.res.kind \in {"cmd", "none"}

\* C7: a call of understand() on a non-empty utterance raises exactly one of
\* the four counters, by one, and it is miss when no command is returned
C7_OneCounterPerCall ==
    NonEmptyCall =>
        \E counter \in Counters :
            /\ stats = [last.pre.stats EXCEPT ![counter] = @ + 1]
            /\ last.res.kind = "none" => counter = "miss"

\* the phrases a teach_action call teaches
TaughtPhrases(arg) == {arg.phrase} \cup Range(arg.examples)

C8_Step ==
    (last.op = "teach_action" /\ last'.op = "understand"
                              /\ last'.arg.phrase \in TaughtPhrases(last.arg)) =>
        /\ last'.res = extract(last.arg.action, Strip(last'.arg.phrase), last.arg.params)
        /\ (last.arg.action = A("SEND_MESSAGE") /\ Has(last.arg.params, "contact")) =>
              last'.res.cmd.query = last.arg.params["contact"].str
        /\ NoTier2(last'.ev)

\* C8: understand of the trigger or of an example, right after teach_action,
\* yields the taught action built from the taught params (for SEND_MESSAGE
\* the query is the taught contact) and does not ask Tier 2
C8_TaughtResolves == [][C8_Step]_vars

\* p was taught: the cache held it with source user before the call l
TaughtBefore(l) ==
    /\ lookup(l.pre.cache, l.arg.phrase) # NoDict
    /\ lookup(l.pre.cache, l.arg.phrase).source = "user"

C9_Step ==
    (last.op = "understand" /\ Raw # <<>> /\ TaughtBefore(last)
        /\ last'.op = "understand" /\ last'.arg.phrase = Utt) =>
        /\ last'.res = last.res
        /\ last'.ev = <<Event("whole", Raw, ""), Event("lookup", KeyU, "hit")>>
        /\ cache' = cache
        /\ matcher' = matcher

\* C9: of two consecutive understand(p) for a taught p, the second returns
\* what the first returned, is resolved by the exact cache lookup without
\* Tier 2, and leaves the cache and the index as the first left them
C9_TaughtIdempotent == [][C9_Step]_vars

\* the last call wrote the cache file
Wrote ==
    \/ last.op = "teach_action"
    \/ last.op = "forget_action" /\ last.res.kind = "True"
    \/ last.op = "understand" /\ \E i \in DOMAIN last.ev : last.ev[i].e = "store"

\* the phrases of c that were taught
TaughtKeys(c) == {c[i].key : i \in {j \in DOMAIN c : c[j].entry.source = "user"}}

\* C10: a call whose writes succeed leaves in the file exactly the entries
\* of the in-memory cache, and an engine constructed from such a file has
\* the same entries and index and resolves every taught phrase to the same
\* command as the engine before the restart
C10_PersistenceRoundTrip ==
    /\ (Wrote /\ last.env.mode = "ok") =>
          (disk.state = "ok" /\ JsonLoad(disk.doc) = cache)
    /\ (last.op = "restart" /\ _load(last.pre.disk) = last.pre.cache) =>
          /\ cache = last.pre.cache
          /\ matcher = last.pre.matcher
          /\ \A p \in TaughtKeys(last.pre.cache) :
                understand(S, E, p, NoAnswers).res
                    = understand(last.pre, E, p, NoAnswers).res

\* a restart after 'chat' was taught and written: the new engine resolves
\* 'chat' to SEND_MESSAGE with query 'mom'
C10_Witness ==
    /\ last.op = "restart"
    /\ last.pre.disk.state = "ok"
    /\ _load(last.pre.disk) = last.pre.cache
    /\ <<"chat">> \in TaughtKeys(last.pre.cache)
    /\ understand(S, E, <<"chat">>, NoAnswers).res.kind = "cmd"
    /\ understand(S, E, <<"chat">>, NoAnswers).res.cmd.action = A("SEND_MESSAGE")
    /\ understand(S, E, <<"chat">>, NoAnswers).res.cmd.query = <<"mom">>

Modifiers == {"send", "enter", "submit", "search"}

\* '<left> and <modifier>' with no other separator in it
IsModifierForm(u) ==
    /\ Len(u) >= 3
    /\ u[Len(u)] \in Modifiers
    /\ u[Len(u) - 1] = "and"
    /\ \A i \in 1..(Len(u) - 2) : u[i] \notin {"and", "then", "after", PAD}

\* left halves to try the rule on
ModifierLefts ==
    { <<"write", "hello">>, <<"type", "cats">>, <<"open", "chrome">>, <<"zzz">> }

\* C11: split_compound does not split '<left> and <modifier>' for a modifier
\* of send, enter, submit, search; understand of such an utterance classifies
\* no parts and does not return MULTI_STEP; and 'write hello and send', when
\* it is not a taught phrase, resolves to TYPE_AND_SEND with text 'hello'
C11_ModifierRule ==
    /\ \A left \in ModifierLefts : \A m \in Modifiers :
          split_compound(left \o <<"and", m>>) = None
    /\ (NonEmptyCall /\ IsModifierForm(KeyU)) =>
          /\ split_compound(Utt) = None
          /\ \A i \in DOMAIN last.ev : last.ev[i].e # "part"
          /\ ~(last.res.kind = "cmd" /\ last.res.cmd.action = A("MULTI_STEP"))
    /\ (NonEmptyCall /\ KeyU = <<"write", "hello", "and", "send">>
                     /\ KeyIndex(last.pre.cache, KeyU) = 0) =>
          last.res = Ok([Command(A("TYPE_AND_SEND")) EXCEPT !.text = <<"hello">>])

\* 'write hello and send' answered as one TYPE_AND_SEND while the cache holds
\* taught phrases
C11_Witness ==
    /\ NonEmptyCall
    /\ Utt = <<"write", "hello", "and", "send">>
    /\ last.pre.cache # <<>>
    /\ last.res.kind = "cmd"
    /\ last.res.cmd.action = A("TYPE_AND_SEND")
    /\ last.res.cmd.text = <<"hello">>

\* C12: understand on an empty or whitespace-only utterance returns no
\* command, does not raise, takes no step (Tier 2 is not consulted) and
\* leaves the counters, the cache, its file and the index as they were
C12_BlankInput ==
    (last.op = "understand" /\ Raw = <<>>) =>
        /\ last.res = Nothing
        /\ last.ev = <<>>
        /\ stats = last.pre.stats
        /\ cache = last.pre.cache
        /\ disk = last.pre.disk
        /\ matcher = last.pre.matcher

\* a whitespace-only utterance given to an engine that has a cache and an
\* available Tier 2
C12_Witness ==
    /\ last.op = "understand"
    /\ Utt = <<PAD>>
    /\ last.pre.cache # <<>>
    /\ last.env.available
    /\ last.res.kind = "none"

C13_Step ==
    /\ llm_available' = llm_available
    /\ ~llm_available =>
          /\ NoTier2(last'.ev)
          /\ stats'.tier2 = 0
          /\ last'.res.kind # "raise"
          /\ last'.op \notin {"teach_action", "forget_action"} =>
                (cache' = cache /\ disk' = disk)

\* C13: within a process the availability of Tier 2 stays what the probe at
\* construction found; when it is unavailable no call consults Tier 2, the
\* tier2 counter stays 0, only teach_action and forget_action change the
\* cache, and every call completes
C13_AvailabilityFixed == [][C13_Step]_vars

\* an utterance no tier resolves, given to an engine without Tier 2: a miss,
\* with Tier 2 not consulted
C13_Witness ==
    /\ last.op = "understand"
    /\ Utt = <<"zzz">>
    /\ ~llm_available
    /\ ~last.env.available
    /\ last.res.kind = "none"
    /\ NoTier2(last.ev)
    /\ stats.miss = last.pre.stats.miss + 1

\* the closed set of action labels: those of the knowledge base and those
\* Tier 2 may name
ValidLabels ==
    ACTION_DESCRIPTIONS \cup {ACTION_EXAMPLES[k][1] : k \in DOMAIN ACTION_EXAMPLES}

\* C14: every entry of the learning cache has an action of the closed set,
\* and a command returned through a cache hit has one too
C14_CacheActionsValid ==
    /\ \A i \in DOMAIN cache : cache[i].entry.action \in ValidLabels
    /\ (last.op = "understand" /\ last.res.kind = "cmd"
          /\ stats.cache_hit > last.pre.stats.cache_hit) =>
          last.res.cmd.action \in ValidLabels \cup {A("MULTI_STEP")}

\* the documents of the index after those of the knowledge base
LearnedDocs == SubSeq(matcher.documents, Len(KbDocs(1)) + 1, Len(matcher.documents))

\* the texts the index must hold for cache entry i
TextsOf(i) == {cache[i].key} \cup Range(cache[i].entry.examples)

RECURSIVE DocCount(_)
DocCount(i) ==
    IF i = 0 THEN 0 ELSE 1 + Len(cache[i].entry.examples) + DocCount(i - 1)

\* C15: the index is a fresh build over the knowledge-base documents
\* followed by, for every cache key in order, the document
\* ("CACHED:"+phrase, phrase) and one ("CACHED:"+phrase, example) per example,
\* and nothing else; and in every call a store or a forget is followed by a
\* rebuild before the call ends
C15_IndexConsistent ==
    /\ matcher._built
    /\ matcher = BuildMatcher(matcher.documents)
    /\ Len(matcher.documents) >= Len(KbDocs(1))
    /\ SubSeq(matcher.documents, 1, Len(KbDocs(1))) = KbDocs(1)
    /\ Len(LearnedDocs) = DocCount(Len(cache))
    /\ \A i \in DOMAIN cache : \A text \in TextsOf(i) :
          \E j \in DOMAIN LearnedDocs :
             LearnedDocs[j] = [action |-> CachedLabel(cache[i].key), text |-> text]
    /\ \A j \in DOMAIN LearnedDocs :
          \E i \in DOMAIN cache :
             /\ LearnedDocs[j].action = CachedLabel(cache[i].key)
             /\ LearnedDocs[j].text \in TextsOf(i)
    /\ \A j, k \in DOMAIN LearnedDocs :
          (j < k /\ LearnedDocs[j].action # LearnedDocs[k].action) =>
             KeyIndex(cache, Tail(LearnedDocs[j].action))
                < KeyIndex(cache, Tail(LearnedDocs[k].action))
    /\ \A i \in DOMAIN last.ev :
          last.ev[i].e = "store" =>
             \E j \in DOMAIN last.ev : j > i /\ last.ev[j].e = "rebuild"
    /\ (last.op \in {"teach_action", "forget_action"} /\ cache # last.pre.cache) =>
          \E j \in DOMAIN last.ev : last.ev[j].e = "rebuild"

\* 'chat' taught with an example: three learned documents in the index
C15_Witness ==
    /\ last.op = "teach_action"
    /\ last.arg = TeachChat
    /\ Len(LearnedDocs) = 3
    /\ LearnedDocs[2] = [action |-> CachedLabel(<<"chat">>),
                          text |-> <<"talk", "to", "poojitha">>]

\* C16: a call whose write of the cache file fails returns normally, the
\* cache in memory holds what it stored or no longer holds what it forgot,
\* the index is built from that cache, and understand resolves with it
C16_WriteFailureContained ==
    (Wrote /\ last.env.mode # "ok") =>
        /\ last.res.kind # "raise"
        /\ matcher = _build_index(cache)
        /\ disk.state # "ok" \/ disk = last.pre.disk
        /\ last.op = "teach_action" =>
              \A p \in TaughtPhrases(last.arg) :
                 /\ lookup(cache, p) # NoDict
                 /\ lookup(cache, p).action = last.arg.action
                 /\ lookup(cache, p).params = last.arg.params
                 /\ understand(S, E, p, NoAnswers).res
                       = extract(last.arg.action, p, last.arg.params)
        /\ last.op = "forget_action" =>
              /\ last.res.kind = "True"
              /\ lookup(cache, Utt) = NoDict
        /\ last.op = "understand" =>
              \A i \in DOMAIN last.ev :
                 last.ev[i].e = "store" =>
                    /\ lookup(cache, last.ev[i].phrase) # NoDict
                    /\ lookup(cache, last.ev[i].phrase).source = "llm"
                    /\ NoTier2(understand(S, E, last.ev[i].phrase, NoAnswers).ev)
                    /\ understand(S, E, last.ev[i].phrase, NoAnswers).res.kind = "cmd"

\* 'chat' taught while the file cannot be written: no file, and 'chat'
\* resolves to SEND_MESSAGE with query 'mom'
C16_Witness ==
    /\ last.op = "teach_action"
    /\ last.env.mode = "denied"
    /\ disk.state = "missing"
    /\ lookup(cache, <<"chat">>) # NoDict
    /\ understand(S, E, <<"chat">>, NoAnswers).res.kind = "cmd"
    /\ understand(S, E, <<"chat">>, NoAnswers).res.cmd.action = A("SEND_MESSAGE")
    /\ understand(S, E, <<"chat">>, NoAnswers).res.cmd.query = <<"mom">>

\* the file d is one the engine wrote: a map of entries
WellFormedFile(d) ==
    /\ d.state = "ok"
    /\ \A i \in DOMAIN d.doc :
          DOMAIN ObjectOf(d.doc[i][2]) = {"action", "params", "source", "examples"}

\* C17: whatever file the engine finds at startup, construction succeeds,
\* with an empty cache unless the file is a map of well-formed entries, and
\* no later call raises
C17_StartupNeverFatal ==
    /\ last.res.kind # "raise"
    /\ (last.op \in {"init", "restart"} /\ ~WellFormedFile(disk)) => cache = <<>>

\* the first run of digits in the tokens t, or -1
FirstDigits(t) ==
    IF \A i \in DOMAIN t : DigitRun(t[i]) < 0 THEN -1
    ELSE DigitRun(t[CHOOSE i \in DOMAIN t :
                      DigitRun(t[i]) >= 0 /\ \A j \in 1..(i - 1) : DigitRun(t[j]) < 0])

\* the amount the volume rule names for the utterance u and the hints h;
\* -1 when the hint is not a number
VolumeAmount(u, h) ==
    IF Has(h, "amount") /\ h["amount"] \notin {VInt(0), VStr(<<>>)}
    THEN IF IsInt(h["amount"]) THEN h["amount"].int
         ELSE IF Len(h["amount"].str) = 1 THEN NumeralOf(h["amount"].str[1]) ELSE -1
    ELSE IF FirstDigits(u) >= 0 THEN FirstDigits(u)
    ELSE IF \E i \in DOMAIN u : u[i] \in {"more", "lot", "lots", "much"} THEN 5
    ELSE 2

\* C18: extract gives VOLUME_UP / VOLUME_DOWN the amount of the hint when one
\* is present and non-zero, else the first digit run of the utterance, else 5
\* for more/lot/much, else 2; VOLUME_MAX always becomes VOLUME_UP with 15
C18_VolumeSteps ==
    last.op = "extract" =>
        /\ last.res.kind = "cmd"
        /\ last.res.cmd =
              IF last.arg.action = A("VOLUME_MAX")
              THEN [Command(A("VOLUME_UP")) EXCEPT !.amount = 15]
              ELSE [Command(last.arg.action) EXCEPT
                      !.amount = VolumeAmount(last.arg.phrase, last.arg.params)]

\* the most recent call was understand("blast it") on an empty cache with
\* the Tier-2 classifier available
BlastItFirst ==
    /\ last.op = "understand"
    /\ Utt = <<"blast", "it">>
    /\ last.pre.cache = <<>>
    /\ last.env.available

\* that call, its LLM endpoint answering {"action": "VOLUME_UP", "amount": 5}
\* whenever it is asked
BlastItStubbed ==
    understand(last.pre, last.env, Utt,
               [k \in 1..3 |-> RespJson(LlmObject(VStr(A("VOLUME_UP")), <<>>, VInt(5)))])

UncertainCall ==
    /\ NonEmptyCall
    /\ last.ev[1].e = "whole"
    /\ lookup(last.pre.cache, Utt) = NoDict
    /\ \E i \in DOMAIN last.ev : last.ev[i].e = "tier0" /\ last.ev[i].info = "miss"
    /\ match(last.pre.matcher, Raw, 3) # <<>>
    /\ match(last.pre.matcher, Raw, 3)[1][2][1] # "CACHED:"
    /\ match(last.pre.matcher, Raw, 3)[1][1] >= TIER1_UNCERTAIN
    /\ match(last.pre.matcher, Raw, 3)[1][1] < TIER1_CONFIDENT

\* C20: such a call consults Tier 2 exactly once when it is available; an
\* accepted answer is stored in the cache and a command is returned with
\* tier2 incremented; without Tier 2 or without an accepted answer the
\* command of the best Tier-1 action is returned with tier1 incremented;
\* the call is never a miss
C20_UncertainBand ==
    UncertainCall =>
        /\ Cardinality({i \in DOMAIN last.ev : last.ev[i].e = "tier2"})
              = IF last.env.available THEN 1 ELSE 0
        /\ IF \E i \in DOMAIN last.ev :
                 last.ev[i].e = "tier2" /\ last.ev[i].info = "accepted"
           THEN /\ last.res.kind = "cmd"
                /\ lookup(cache, Utt) # NoDict
                /\ lookup(cache, Utt).source = "llm"
                /\ stats = [last.pre.stats EXCEPT !.tier2 = @ + 1]
           ELSE /\ last.res.kind = "cmd"
                /\ last.res = extract(match(last.pre.matcher, Raw, 3)[1][2],
                                      Raw, EmptyDict)
                /\ stats = [last.pre.stats EXCEPT !.tier1 = @ + 1]
                /\ cache = last.pre.cache
        /\ stats.miss = last.pre.stats.miss

\* the most recent call was understand() on a single command that no cache
\* key and no Tier-0 pattern answers
Tier1Call ==
    /\ NonEmptyCall
    /\ last.ev[1].e = "whole"
    /\ lookup(last.pre.cache, Utt) = NoDict
    /\ \E i \in DOMAIN last.ev : last.ev[i].e = "tier0" /\ last.ev[i].info = "miss"

\* the candidates of Tier 1 in that call
Matches == match(last.pre.matcher, Raw, 3)

\* the best candidate carries a namespaced cached label
CachedTop == Matches # <<>> /\ Matches[1][2][1] = "CACHED:"

\* C21: a cached-label top candidate is resolved through the cache, without
\* Tier 2, only when it scores at or above the confident threshold; below
\* it the call is not a cache hit and Tier 2 is consulted when available
C21_CachedLabelNeedsConfidence ==
    (Tier1Call /\ CachedTop) =>
        IF Matches[1][1] >= TIER1_CONFIDENT
        THEN /\ NoTier2(last.ev)
             /\ stats = [last.pre.stats EXCEPT !.cache_hit = @ + 1]
        ELSE /\ stats.cache_hit = last.pre.stats.cache_hit
             /\ last.env.available =>
                   Cardinality({i \in DOMAIN last.ev : last.ev[i].e = "tier2"}) = 1

\* that call finds no Tier-1 candidate, or a built-in one below the uncertain
\* band
LowCall ==
    /\ Tier1Call
    /\ ~CachedTop
    /\ Matches = <<>> \/ Matches[1][1] < TIER1_UNCERTAIN

\* C22: below the uncertain band Tier 2 is consulted when it is available;
\* when it is not, or accepts nothing, the call returns the command of the
\* best Tier-1 action iff its score exceeds the floor (tier1 + 1) and
\* otherwise returns no command, with miss + 1; the cache is not touched
C22_LowBandAndMiss ==
    LowCall =>
        /\ Cardinality({i \in DOMAIN last.ev : last.ev[i].e = "tier2"})
              = IF last.env.available THEN 1 ELSE 0
        /\ (\A i \in DOMAIN last.ev : last.ev[i].info # "accepted") =>
              /\ cache = last.pre.cache
              /\ IF Matches # <<>> /\ Matches[1][1] > TIER1_FLOOR
                 THEN /\ last.res.kind = "cmd"
                      /\ last.res = extract(Matches[1][2], Raw, EmptyDict)
                      /\ stats = [last.pre.stats EXCEPT !.tier1 = @ + 1]
                 ELSE /\ last.res = Nothing
                      /\ stats = [last.pre.stats EXCEPT !.miss = @ + 1]

\* a candidate at or below the floor, Tier 2 asked and answering nothing
C22_Witness ==
    /\ LowCall
    /\ last.env.available
    /\ Matches # <<>>
    /\ Matches[1][1] <= TIER1_FLOOR
    /\ last.res = Nothing
    /\ stats.miss = last.pre.stats.miss + 1

\* the places where the separator sep occurs in t, a word on either side
Occurrences(t, sep) ==
    {i \in 2..(Len(t) - Len(sep)) : SubSeq(t, i, i + Len(sep) - 1) = sep}

\* the occurrence of sep at i qualifies: the right half is not a lone
\* modifier, not verb + pronoun, and starts with a command verb
Qualifies(t, sep, i) ==
    LET right == SubSeq(t, i + Len(sep), Len(t))
    IN /\ ~(Len(right) = 1 /\ right[1] \in {"send", "enter", "submit", "search"})
       /\ ~(Len(right) = 2 /\ right[2] \in {"it", "that", "this"}
                           /\ right[1] \in {"tap", "click", "select", "press", "hit", "open"})
       /\ right[1] \in _COMMAND_VERBS

\* the split at the first qualifying occurrence of the first separator, in
\* priority order from the k-th on, that has one; None when none has
RECURSIVE SplitAtAny(_, _)
SplitAtAny(t, k) ==
    IF k > Len(Separators) THEN None
    ELSE LET sep == Separators[k]
             good == {i \in Occurrences(t, sep) : Qualifies(t, sep, i)}
             i == CHOOSE i \in good : \A j \in good : i <= j
         IN IF good = {} THEN SplitAtAny(t, k + 1)
            ELSE <<SubSeq(t, 1, i - 1), SubSeq(t, i + Len(sep), Len(t))>>

\* C23: split_compound looks at every occurrence of each separator: it
\* returns the split at the first occurrence that qualifies, and None only
\* when no occurrence of any separator qualifies
C23_EveryOccurrence ==
    last.op = "split" => last.res = SplitAtAny(Utt, 1)

\* m is a complete index: the one built over the knowledge base and the
\* entries of c, or over those of them that were there before a store
CompleteIndex(m, c) ==
    \E K \in SUBSET {c[i].key : i \in DOMAIN c} :
        m = _build_index(SelectSeq(c, LAMBDA e : e.key \in K))

\* C24: store and rebuild_index act as a critical section: the engine's
\* index is at every moment a complete one, the old or the new, and so is
\* the index any interleaved understand call matched against
C24_RebuildAtomic ==
    /\ CompleteIndex(matcher, cache)
    /\ last.op = "understand" => CompleteIndex(last.pre.matcher, last.pre.cache)

\* every cache key is its own stripped, lowercased form
KeysNormal == \A i \in DOMAIN cache : cache[i].key = Lower(Strip(cache[i].key))

\* every "CACHED:<phrase>" label of the index names a key of the cache
LabelsLive ==
    \A j \in DOMAIN matcher.documents :
        matcher.documents[j].action[1] = "CACHED:" =>
            lookup(cache, Tail(matcher.documents[j].action)) # NoDict

\* C25: from an empty cache on, the keys are normalised, the cached labels
\* of the index are live, and understand never returns a command whose
\* action is a "CACHED:..." label
C25_CachedLabelsNeverReturned ==
    /\ KeysNormal
    /\ LabelsLive
    /\ (last.op = "understand" /\ last.res.kind = "cmd") =>
          last.res.cmd.action[1] # "CACHED:"

\* C26: understand never changes or removes an entry the cache holds, and
\* Tier 2 is asked about a phrase only when the cache, as it is at that
\* point of the call, has no entry for it
C26_PromotionNeverOverwrites ==
    last.op = "understand" =>
        /\ \A i \in DOMAIN last.pre.cache :
              lookup(cache, last.pre.cache[i].key) = last.pre.cache[i].entry
        /\ \A j \in DOMAIN last.ev :
              last.ev[j].e = "tier2" =>
                  /\ lookup(last.pre.cache, last.ev[j].phrase) = NoDict
                  /\ \A i \in 1..(j - 1) :
                        last.ev[i].e = "store" =>
                            last.ev[i].phrase # Lower(Strip(last.ev[j].phrase))

\* a promotion into a cache that holds an entry taught by the user
C26_Witness ==
    /\ last.op = "understand"
    /\ \E i \in DOMAIN last.pre.cache : last.pre.cache[i].entry.source = "user"
    /\ \E j \in DOMAIN last.ev : last.ev[j].e = "store"
    /\ Len(cache) = Len(last.pre.cache) + 1

\* the most recent call split its utterance, classified the parts and then
\* went on to the whole utterance
AbandonedSplit ==
    /\ NonEmptyCall
    /\ split_compound(Raw) # None
    /\ \E i \in DOMAIN last.ev : last.ev[i].e = "whole"

\* the engine after the two sub-resolution attempts of that call
AfterParts ==
    _classify_single(
        _classify_single(last.pre, last.env, split_compound(Raw)[1], last.resps[1]).S,
        last.env, split_compound(Raw)[2], last.resps[2]).S

\* C27: when a split is abandoned, the attempts on the parts have left the
\* cache, its file, the index and the counters as they were before the call
C27_AbandonedSplitNoEffect ==
    AbandonedSplit => AfterParts = last.pre

\* understand of the phrase just forgotten, the LLM endpoint giving no answer
AfterForget == understand(S, E, Utt, NoAnswers)

\* C28: after forget_action(p) returned True, understand(p) is not resolved
\* through a cached entry, by exact lookup or by a "CACHED:" document
C28_ForgottenNotResolved ==
    (last.op = "forget_action" /\ last.res = Bool(TRUE)) =>
        /\ lookup(cache, Utt) = NoDict
        /\ AfterForget.S.stats.cache_hit = stats.cache_hit
        /\ \A i \in DOMAIN AfterForget.ev :
              ~(AfterForget.ev[i].e = "lookup" /\ AfterForget.ev[i].info = "hit")

\* C29: a write of the cache file that fails leaves in the file what the
\* last successful write put there: a restart loads the same entries as it
\* would have loaded before the failed write
C29_FailedWriteKeepsFile ==
    (Wrote /\ last.env.mode # "ok") => _load(disk) = _load(last.pre.disk)

\* the labels under which the knowledge base lists the phrase e
LabelsOf(e) ==
    {ACTION_EXAMPLES[k][1] :
        k \in {j \in DOMAIN ACTION_EXAMPLES :
                  \E i \in DOMAIN ACTION_EXAMPLES[j][2] : ACTION_EXAMPLES[j][2][i] = e}}

\* understand of an example phrase of the knowledge base by an engine whose
\* cache is empty, whose index holds the knowledge base alone and whose LLM
\* endpoint is not available
KbCall ==
    /\ last.op = "understand"
    /\ LabelsOf(Utt) # {}
    /\ last.pre.cache = <<>>
    /\ last.pre.matcher = _build_index(<<>>)
    /\ ~last.env.available

\* C30: every example phrase of the knowledge base is resolved as a single
\* command through each label that lists it: it is not split, the call does
\* not return MULTI_STEP, a Tier-0 pattern that takes it answers the
\* label's own action, and otherwise Tier 1 answers with that label as its
\* best candidate
C30_KbSelfConsistent ==
    KbCall =>
        \A a \in LabelsOf(Utt) :
            /\ last.res.kind \notin {"none", "raise"}
            /\ ~(last.res.kind = "cmd" /\ last.res.cmd.action = A("MULTI_STEP"))
            /\ \A i \in DOMAIN last.ev : last.ev[i].e # "part"
            /\ IF Tier0(KeyU) # None
               THEN last.res.kind = "cmd" /\ last.res.cmd.action = a
               ELSE /\ \E i \in DOMAIN last.ev : last.ev[i].e = "tier1"
                    /\ match(last.pre.matcher, Raw, 3)[1][2] = a

====
